---- MODULE Spec2Model ----
(***************************************************************************)
(* A model of the ARM64 single-pass code generator                         *)
(* (lib/compiler-singlepass/src/machine_arm64.rs) and of the runtime       *)
(* Global cell (lib/runtime-core/src/global.rs).                           *)
(*                                                                         *)
(* The machine is a record (the fields of MachineARM64); every method is   *)
(* an operator from a machine to the machine after the call.  A panic      *)
(* (panic!, unwrap of None, a failed assert!, unimplemented!) stops the    *)
(* call where it is raised: the field `panic` then holds the message and   *)
(* every later step of the call leaves the machine alone.                  *)
(*                                                                         *)
(* The code buffer is a sequence of instructions.  The emitted code is     *)
(* run on a small ARM64 processor model (`cpu`) whose 64-bit values are    *)
(* four 16-bit limbs, least significant first, so that 32-bit and 64-bit   *)
(* wrap-around is exact.                                                   *)
(***************************************************************************)
EXTENDS Integers, Sequences, FiniteSets, TLC

VARIABLES
    mach,    \* the MachineARM64 under compilation
    pre,     \* the machine as it was before the last call
    call,    \* the last call: its name and arguments
    cpu,     \* the processor after running everything emitted so far
    vstack,  \* the values the driver has pushed and not yet popped
    twin,    \* a second, independent MachineARM64 given the same calls
    globals, \* the Global handles of the runtime and the cells they share
    relocations  \* the caller's list of relocation records

vars == <<mach, pre, call, cpu, vstack, twin, globals, relocations>>

----------------------------------------------------------------------------
(* 64-bit words as four 16-bit limbs *)

Limb == 2^16

Word(n) == <<n % Limb, (n \div Limb) % Limb, 0, 0>>

Add64(a, b) ==
    LET s1 == a[1] + b[1]
        s2 == a[2] + b[2] + (s1 \div Limb)
        s3 == a[3] + b[3] + (s2 \div Limb)
        s4 == a[4] + b[4] + (s3 \div Limb)
    IN  <<s1 % Limb, s2 % Limb, s3 % Limb, s4 % Limb>>

Neg64(a) ==
    Add64(<<Limb - 1 - a[1], Limb - 1 - a[2], Limb - 1 - a[3], Limb - 1 - a[4]>>,
          <<1, 0, 0, 0>>)

Sub64(a, b) == Add64(a, Neg64(b))

\* unsigned a < b
Ult64(a, b) ==
    \/ a[4] < b[4]
    \/ a[4] = b[4] /\ a[3] < b[3]
    \/ a[4] = b[4] /\ a[3] = b[3] /\ a[2] < b[2]
    \/ a[4] = b[4] /\ a[3] = b[3] /\ a[2] = b[2] /\ a[1] < b[1]

\* the low 32 bits, zero-extended (a write to a W register)
Low32(a) == <<a[1], a[2], 0, 0>>

Add32(a, b) == Low32(Add64(Low32(a), Low32(b)))

\* carry out of the 32-bit addition
Carry32(a, b) == Add64(Low32(a), Low32(b))[3] # 0

\* carry out of the 64-bit addition
Carry64(a, b) == Ult64(Add64(a, b), a)

RECURSIVE BitAnd(_, _)
BitAnd(x, y) ==
    IF x = 0 \/ y = 0 THEN 0
    ELSE (x % 2) * (y % 2) + 2 * BitAnd(x \div 2, y \div 2)

And64(a, b) ==
    <<BitAnd(a[1], b[1]), BitAnd(a[2], b[2]), BitAnd(a[3], b[3]), BitAnd(a[4], b[4])>>

Zero64 == <<0, 0, 0, 0>>

----------------------------------------------------------------------------
(* Locations and sizes *)

S8 == 8
S16 == 16
S32 == 32
S64 == 64

GPR(r) == [k |-> "GPR", r |-> r, n |-> 0]
SIMD(r) == [k |-> "SIMD", r |-> r, n |-> 0]
Memory(r, off) == [k |-> "Memory", r |-> r, n |-> off]
Imm8(v) == [k |-> "Imm8", r |-> "", n |-> v]
Imm32(v) == [k |-> "Imm32", r |-> "", n |-> v]
Imm64(v) == [k |-> "Imm64", r |-> "", n |-> v]
NoLoc == [k |-> "None", r |-> "", n |-> 0]

IsImm(l) == l.k \in {"Imm8", "Imm32", "Imm64"}
IsReg(l) == l.k \in {"GPR", "SIMD"}

TempGprs == <<"X0", "X1", "X2", "X3", "X4", "X5", "X6", "X7">>
TempSimds == <<"V0", "V1", "V2", "V3", "V4", "V5", "V6", "V7">>

Range(s) == {s[i] : i \in DOMAIN s}

Reversed(s) == [i \in 1..Len(s) |-> s[Len(s) + 1 - i]]

----------------------------------------------------------------------------
(* The machine *)

\* hasher: the order in which each in-use set (a HashSet with its own RandomState)
\* yields its elements; it differs from one instance to another
\* no Global has been created
NoGlobals == [objs |-> <<>>, cells |-> <<>>, ptrs |-> {}]

new_keyed(gpr_order, simd_order) ==
    [ assembler |-> <<>>,
      used_gprs |-> {},
      used_simd |-> {},
      hasher |-> [gprs |-> gpr_order, simd |-> simd_order],
      trap_table |-> <<>>,
      instructions_address_map |-> <<>>,
      src_loc |-> 0,
      pushed |-> FALSE,
      panic |-> "",
      log |-> <<>> ]

new == new_keyed(<<>>, <<>>)

\* F applied to the value of x, computed once
Bind(x, F(_)) == CHOOSE r \in {F(v) : v \in {x}} : TRUE

Panicked(m) == m.panic # ""

Panic(m0, msg) == Bind(m0, LAMBDA m : IF Panicked(m) THEN m ELSE [m EXCEPT !.panic = msg])

InstrBytes == 4

get_offset(m) == InstrBytes * Len(m.assembler)

Ins(op, sz, a, b, d, c) == [op |-> op, sz |-> sz, a |-> a, b |-> b, d |-> d, c |-> c]

Emit(m0, ins) ==
    Bind(m0, LAMBDA m : IF Panicked(m) THEN m ELSE [m EXCEPT !.assembler = Append(@, ins)])

----------------------------------------------------------------------------
(* The instruction emitter (emitter_arm64.rs): one instruction per call, or *)
(* a panic when the operand shapes cannot be encoded.  Operand order, as at *)
(* every call site of the machine: (size, source..., destination).          *)

IsSrc(l) == l.k \in {"GPR", "Imm8", "Imm32"}

emit_add(m, sz, src1, src2, dst) ==
    IF IsSrc(src1) /\ IsSrc(src2) /\ dst.k = "GPR"
    THEN Emit(m, Ins("add", sz, src1, src2, dst, ""))
    ELSE Panic(m, "singlepass can't emit ADD")

emit_sub(m, sz, src1, src2, dst) ==
    IF IsSrc(src1) /\ IsSrc(src2) /\ dst.k = "GPR"
    THEN Emit(m, Ins("sub", sz, src1, src2, dst, ""))
    ELSE Panic(m, "singlepass can't emit SUB")

\* dst := src, registers, immediates and one memory operand
emit_mov(m, sz, src, dst) ==
    IF /\ IsReg(src) \/ IsImm(src) \/ src.k = "Memory"
       /\ IsReg(dst) \/ dst.k = "Memory"
       /\ ~(src.k = "Memory" /\ dst.k = "Memory")
    THEN Emit(m, Ins("mov", sz, src, NoLoc, dst, ""))
    ELSE Panic(m, "singlepass can't emit MOV")

\* dst := dst + src
emit_add2(m, sz, src, dst) ==
    IF /\ IsReg(src) \/ IsImm(src) \/ src.k = "Memory"
       /\ IsReg(dst) \/ dst.k = "Memory"
       /\ ~(src.k = "Memory" /\ dst.k = "Memory")
    THEN Emit(m, Ins("add2", sz, src, NoLoc, dst, ""))
    ELSE Panic(m, "singlepass can't emit ADD2")

emit_mov_imm(m, dst, val) ==
    IF dst.k = "GPR"
    THEN Emit(m, Ins("mov", S64, Imm64(val), NoLoc, dst, ""))
    ELSE Panic(m, "singlepass can't emit MOVIMM")

\* reg := [addr]; addr is Memory(base, offset) or GPR(base)
emit_ldr(m, sz, reg, addr) ==
    IF IsReg(reg) /\ addr.k \in {"Memory", "GPR"}
    THEN Emit(m, Ins("ldr", sz, addr, NoLoc, reg, ""))
    ELSE Panic(m, "singlepass can't emit LDR")

\* [addr] := reg
emit_str(m, sz, reg, addr) ==
    IF IsReg(reg) /\ addr.k \in {"Memory", "GPR"}
    THEN Emit(m, Ins("str", sz, reg, NoLoc, addr, ""))
    ELSE Panic(m, "singlepass can't emit STR")

\* the unscaled forms: reg := [addr + offset], [addr + offset] := reg
emit_ldur(m, sz, reg, addr, offset) ==
    IF IsReg(reg) /\ offset > -256 /\ offset < 256
    THEN Emit(m, Ins("ldr", sz, Memory(addr, offset), NoLoc, reg, ""))
    ELSE Panic(m, "singlepass can't emit LDUR")

emit_stur(m, sz, reg, addr, offset) ==
    IF IsReg(reg) /\ offset > -256 /\ offset < 256
    THEN Emit(m, Ins("str", sz, reg, NoLoc, Memory(addr, offset), ""))
    ELSE Panic(m, "singlepass can't emit STUR")

\* the narrow loads: reg := zero- or sign-extended byte or halfword at [addr + offset]
emit_ldrb(m, sz, reg, addr, offset) ==
    IF reg.k = "GPR" THEN Emit(m, Ins("ldrb", sz, Memory(addr, offset), NoLoc, reg, ""))
    ELSE Panic(m, "singlepass can't emit LDRB")

emit_ldrsb(m, sz, reg, addr, offset) ==
    IF reg.k = "GPR" THEN Emit(m, Ins("ldrsb", sz, Memory(addr, offset), NoLoc, reg, ""))
    ELSE Panic(m, "singlepass can't emit LDRSB")

emit_ldrh(m, sz, reg, addr, offset) ==
    IF reg.k = "GPR" THEN Emit(m, Ins("ldrh", sz, Memory(addr, offset), NoLoc, reg, ""))
    ELSE Panic(m, "singlepass can't emit LDRH")

emit_ldrsh(m, sz, reg, addr, offset) ==
    IF reg.k = "GPR" THEN Emit(m, Ins("ldrsh", sz, Memory(addr, offset), NoLoc, reg, ""))
    ELSE Panic(m, "singlepass can't emit LDRSH")

\* flags of dst - src
emit_cmp(m, sz, src, dst) ==
    IF IsSrc(src) /\ dst.k = "GPR"
    THEN Emit(m, Ins("cmp", sz, src, NoLoc, dst, ""))
    ELSE Panic(m, "singlepass can't emit CMP")

\* flags of dst AND src
emit_tst(m, sz, src, dst) ==
    IF IsSrc(src) /\ dst.k = "GPR"
    THEN Emit(m, Ins("tst", sz, src, NoLoc, dst, ""))
    ELSE Panic(m, "singlepass can't emit TST")

\* the pair store that first lowers the base register by offset, and the pair
\* load that raises it by offset afterwards
emit_stpbd(m, sz, reg1, reg2, addr, offset) ==
    IF reg1.k = "GPR" /\ reg2.k = "GPR"
    THEN Emit(m, Ins("stp", sz, reg1, reg2, Memory(addr, offset), ""))
    ELSE Panic(m, "singlepass can't emit STP")

emit_ldpai(m, sz, reg1, reg2, addr, offset) ==
    IF reg1.k = "GPR" /\ reg2.k = "GPR"
    THEN Emit(m, Ins("ldp", sz, Memory(addr, offset), reg2, reg1, ""))
    ELSE Panic(m, "singlepass can't emit LDP")

\* 16 bits of dst, at bit `shift', := val
emit_movk(m, dst, val, shift) ==
    IF dst.k = "GPR" /\ val \in 0..(Limb - 1) /\ shift \in {0, 16, 32, 48}
    THEN Emit(m, Ins("movk", S64, Imm32(val), Imm8(shift), dst, ""))
    ELSE Panic(m, "singlepass can't emit MOVK")

Label(l) == [k |-> "Label", r |-> l, n |-> 0]

emit_bcond_label(m, cond, label) == Emit(m, Ins("bcond", S64, Label(label), NoLoc, NoLoc, cond))

----------------------------------------------------------------------------
(* The processor that runs the emitted code *)

GprList == TempGprs \o <<"X18", "X19", "X26", "X27", "X28", "X30">>
GPRs == Range(GprList)
NEONs == Range(TempSimds)

IndexOf(s, e) == CHOOSE i \in DOMAIN s : s[i] = e

ReadX(c, r) == IF r = "XzrSp" THEN c.sp ELSE c.x[r]

Offs(n) == IF n >= 0 THEN Word(n) ELSE Neg64(Word(-n))

Addr(c, l) == IF l.k = "Memory" THEN Add64(ReadX(c, l.r), Offs(l.n)) ELSE ReadX(c, l.r)

Rd(c, a) == IF a \in DOMAIN c.mem THEN c.mem[a] ELSE Zero64

Val(c, l) ==
    CASE l.k = "GPR" -> ReadX(c, l.r)
      [] l.k = "SIMD" -> c.v[l.r]
      [] l.k = "Memory" -> Rd(c, Addr(c, l))
      [] OTHER -> Word(l.n)

Sized(sz, w) == IF sz = S64 THEN w ELSE Low32(w)

WriteLoc(c, l, w) ==
    CASE l.k = "GPR" /\ l.r = "XzrSp" -> [c EXCEPT !.sp = w]
      [] l.k = "GPR" -> [c EXCEPT !.x[l.r] = w]
      [] l.k = "SIMD" -> [c EXCEPT !.v[l.r] = w]
      [] l.k = "Memory" -> [c EXCEPT !.mem = (Addr(c, l) :> w) @@ c.mem]
      [] OTHER -> c

CondHolds(c, cond) ==
    CASE cond = "Cs" -> c.carry
      [] cond = "Hi" -> c.carry /\ ~c.zero
      [] cond = "Ne" -> ~c.zero
      [] cond = "Eq" -> c.zero
      [] cond = "Ls" -> ~(c.carry /\ ~c.zero)
      [] OTHER -> FALSE

\* one instruction; a taken branch to the trap label ends the run
Exec(c, i) ==
    IF c.trapped THEN c
    ELSE CASE i.op = "add" ->
                LET a == Val(c, i.a)
                    b == Val(c, i.b)
                IN  [WriteLoc(c, i.d, IF i.sz = S64 THEN Add64(a, b) ELSE Add32(a, b))
                        EXCEPT !.carry = IF i.sz = S64 THEN Carry64(a, b) ELSE Carry32(a, b)]
           [] i.op = "sub" ->
                WriteLoc(c, i.d, Sized(i.sz, Sub64(Val(c, i.a), Val(c, i.b))))
           [] i.op = "mov" -> WriteLoc(c, i.d, Sized(i.sz, Val(c, i.a)))
           [] i.op = "add2" ->
                WriteLoc(c, i.d, Sized(i.sz, Add64(Val(c, i.d), Val(c, i.a))))
           [] i.op = "ldr" -> WriteLoc(c, i.d, Sized(i.sz, Rd(c, Addr(c, i.a))))
           [] i.op = "ldrb" -> WriteLoc(c, i.d, <<Rd(c, Addr(c, i.a))[1] % 256, 0, 0, 0>>)
           [] i.op = "ldrh" -> WriteLoc(c, i.d, <<Rd(c, Addr(c, i.a))[1], 0, 0, 0>>)
           [] i.op = "ldrsb" ->
                LET b == Rd(c, Addr(c, i.a))[1] % 256
                IN  WriteLoc(c, i.d, IF b < 128 THEN <<b, 0, 0, 0>>
                                     ELSE <<Limb - 256 + b, Limb - 1, 0, 0>>)
           [] i.op = "ldrsh" ->
                LET h == Rd(c, Addr(c, i.a))[1]
                IN  WriteLoc(c, i.d, IF h < Limb \div 2 THEN <<h, 0, 0, 0>>
                                     ELSE <<h, Limb - 1, 0, 0>>)
           [] i.op = "str" ->
                [c EXCEPT !.mem = (Addr(c, i.d) :> Sized(i.sz, Val(c, i.a))) @@ c.mem]
           [] i.op = "cmp" ->
                [c EXCEPT !.carry = ~Ult64(Val(c, i.d), Val(c, i.a)),
                          !.zero = Val(c, i.d) = Val(c, i.a)]
           [] i.op = "tst" ->
                [c EXCEPT !.zero = And64(Val(c, i.d), Val(c, i.a)) = Zero64]
           [] i.op = "bcond" -> [c EXCEPT !.trapped = CondHolds(c, i.c)]
           [] i.op = "movk" ->
                WriteLoc(c, i.d, [Val(c, i.d) EXCEPT ![i.b.n \div 16 + 1] = i.a.n])
           [] i.op = "stp" ->
                LET base == Sub64(ReadX(c, i.d.r), Word(i.d.n))
                    c1 == [c EXCEPT !.mem = (base :> Val(c, i.a))
                                            @@ (Add64(base, Word(8)) :> Val(c, i.b)) @@ c.mem]
                IN  WriteLoc(c1, GPR(i.d.r), base)
           [] i.op = "ldp" ->
                LET base == ReadX(c, i.a.r)
                    c1 == WriteLoc(WriteLoc(c, i.d, Rd(c, base)), i.b,
                                   Rd(c, Add64(base, Word(8))))
                IN  WriteLoc(c1, GPR(i.a.r), Add64(base, Word(i.a.n)))
           [] OTHER -> c

Step(c0, i) == Bind(c0, LAMBDA c : Exec(c, i))

RECURSIVE Run(_, _)
Run(c, code) == IF code = <<>> THEN c ELSE Run(Step(c, Head(code)), Tail(code))

\* the instructions that a call appended to the buffer
Emitted(m0, m1) == SubSeq(m1.assembler, Len(m0.assembler) + 1, Len(m1.assembler))

----------------------------------------------------------------------------
(* Register allocator *)

None == "none"

RECURSIVE FirstFree(_, _)
FirstFree(regs, used) ==
    IF regs = <<>> THEN None
    ELSE IF Head(regs) \notin used THEN Head(regs)
    ELSE FirstFree(Tail(regs), used)

pick_temp_gpr(m) == FirstFree(TempGprs, m.used_gprs)

\* Option::unwrap of the value `opt` just obtained
unwrap(m, opt) ==
    IF opt = None THEN Panic(m, "called Option::unwrap() on a None value") ELSE m

Logged(m, what, r) == [m EXCEPT !.log = Append(@, <<what, r>>)]

acquire_temp_gpr(m0) ==
    Bind(m0, LAMBDA m :
        LET gpr == pick_temp_gpr(m)
        IN  IF Panicked(m) \/ gpr = None THEN m
            ELSE Logged([m EXCEPT !.used_gprs = @ \cup {gpr}], "acquire", gpr))

release_gpr_leak(m0, gpr) ==
    Bind(m0, LAMBDA m :
        IF Panicked(m) THEN m
        ELSE IF gpr \in m.used_gprs THEN Logged(m, "release", gpr)
        ELSE Panic(m, "assertion failed: self.used_gprs.remove(&gpr)"))

release_gpr(m0, gpr) ==
    Bind(m0, LAMBDA m :
        IF Panicked(m) THEN m
        ELSE IF gpr \in m.used_gprs
        THEN Logged([m EXCEPT !.used_gprs = @ \ {gpr}], "release", gpr)
        ELSE Panic(m, "assertion failed: self.used_gprs.remove(&gpr)"))

Gprs ==
    << "X0", "X1", "X2", "X3", "X4", "X5", "X6", "X7",
       "X8", "X9", "X10", "X11", "X12", "X13", "X14", "X15" >>
Simds == <<"V8", "V9", "V10", "V11", "V12">>

pick_gpr(m) == FirstFree(Gprs, m.used_gprs)

pick_simd(m) == FirstFree(Simds, m.used_simd)

pick_temp_simd_last_free(m) == FirstFree(Reversed(TempSimds), m.used_simd)

pick_temp_simd(m) == FirstFree(TempSimds, m.used_simd)

acquire_temp_simd(m0) ==
    Bind(m0, LAMBDA m :
        LET simd == pick_temp_simd(m)
        IN  IF Panicked(m) \/ simd = None THEN m
            ELSE [m EXCEPT !.used_simd = @ \cup {simd}])

release_simd_unchecked(m0, simd) ==
    Bind(m0, LAMBDA m : IF Panicked(m) THEN m ELSE [m EXCEPT !.used_simd = @ \ {simd}])

release_simd(m0, simd) ==
    Bind(m0, LAMBDA m :
        IF Panicked(m) THEN m
        ELSE IF simd \in m.used_simd THEN [m EXCEPT !.used_simd = @ \ {simd}]
        ELSE Panic(m, "assertion failed: (left == right)"))

local_pointer == "X27"

is_local_on_stack_from_7(idx) == idx >= 7

is_local_on_stack(idx) == idx > 7

get_param_location_at_frame_base(idx, calling_convention) ==
    IF idx <= 7 THEN GPR(<<"X0", "X1", "X2", "X3", "X4", "X5", "X6", "X7">>[idx + 1])
    ELSE Memory("X27", (idx - 8) * 8)

get_param_location(idx, calling_convention) ==
    IF idx <= 7 THEN GPR(<<"X0", "X1", "X2", "X3", "X4", "X5", "X6", "X7">>[idx + 1])
    ELSE Memory("X27", 16 + (idx - 8) * 8)

get_local_location_from_x7(idx, callee_saved_regs_size) ==
    IF idx <= 7 THEN GPR(<<"X7", "X19", "X20", "X21", "X22", "X23", "X24", "X25">>[idx + 1])
    ELSE Memory("X27", -((idx - 3) * 8 + callee_saved_regs_size))

get_local_location(idx, callee_saved_regs_size) ==
    IF idx <= 7 THEN GPR(<<"X18", "X19", "X20", "X21", "X22", "X23", "X24", "X25">>[idx + 1])
    ELSE Memory("X27", -((idx - 3) * 8 + callee_saved_regs_size))

----------------------------------------------------------------------------
(* Push and pop with the parity flag *)

SetPushed(m0, b) == Bind(m0, LAMBDA m : IF Panicked(m) THEN m ELSE [m EXCEPT !.pushed = b])

emit_push_always_allocates(m, sz, src) ==
    IF sz = S64 /\ src.k \in {"GPR", "SIMD"}
    THEN LET m1 == emit_sub(m, S64, GPR("XzrSp"), Imm8(16), GPR("XzrSp"))
             m2 == emit_str(m1, S64, src, Memory("XzrSp", 0))
         IN  SetPushed(m2, ~m.pushed)
    ELSE Panic(m, "singlepass can't emit PUSH")

emit_push(m, sz, src) ==
    IF sz = S64 /\ src.k \in {"GPR", "SIMD"}
    THEN LET offset == IF m.pushed THEN 8 ELSE 0
             m1 == IF m.pushed THEN m
                   ELSE emit_sub(m, S64, GPR("XzrSp"), Imm8(16), GPR("XzrSp"))
             m2 == emit_str(m1, S64, src, Memory("XzrSp", offset))
         IN  SetPushed(m2, ~m.pushed)
    ELSE Panic(m, "singlepass can't emit PUSH")

emit_pop_swapped_halves(m, sz, dst) ==
    IF sz = S64 /\ dst.k \in {"GPR", "SIMD"}
    THEN LET offset == IF m.pushed THEN 8 ELSE 0
             m1 == emit_ldr(m, S64, dst, Memory("XzrSp", offset))
             m2 == IF m.pushed
                   THEN emit_add(m1, S64, GPR("XzrSp"), Imm8(16), GPR("XzrSp"))
                   ELSE m1
         IN  SetPushed(m2, ~m.pushed)
    ELSE Panic(m, "singlepass can't emit PUSH")

emit_pop(m, sz, dst) ==
    IF sz = S64 /\ dst.k \in {"GPR", "SIMD"}
    THEN LET offset == IF m.pushed THEN 0 ELSE 8
             m1 == emit_ldr(m, S64, dst, Memory("XzrSp", offset))
             m2 == IF m.pushed
                   THEN emit_add(m1, S64, GPR("XzrSp"), Imm8(16), GPR("XzrSp"))
                   ELSE m1
         IN  SetPushed(m2, ~m.pushed)
    ELSE Panic(m, "singlepass can't emit PUSH")

emit_double_push_always_paired(m0, sz, src1, src2) ==
    Bind(m0, LAMBDA m :
        IF sz = S64 /\ src1.k = "GPR" /\ src2.k = "GPR"
        THEN emit_stpbd(m, S64, src1, src2, "XzrSp", 16)
        ELSE emit_push(emit_push(m, sz, src1), sz, src2))

emit_double_push(m0, sz, src1, src2) ==
    Bind(m0, LAMBDA m :
        IF ~m.pushed /\ sz = S64 /\ src1.k = "GPR" /\ src2.k = "GPR"
        THEN emit_stpbd(m, S64, src1, src2, "XzrSp", 16)
        ELSE emit_push(emit_push(m, sz, src1), sz, src2))

emit_double_pop(m0, sz, dst1, dst2) ==
    Bind(m0, LAMBDA m :
        IF ~m.pushed /\ sz = S64 /\ dst1.k = "GPR" /\ dst2.k = "GPR"
        THEN emit_ldpai(m, S64, dst1, dst2, "XzrSp", 16)
        ELSE emit_pop(emit_pop(m, sz, dst2), sz, dst1))

----------------------------------------------------------------------------
(* Moves and relaxed binary operations *)

Shift(size) ==
    CASE size = S8 -> 0
      [] size = S16 -> 1
      [] size = S32 -> 2
      [] OTHER -> 3

offset_is_ok(size, offset) ==
    /\ ~(offset < 0)
    /\ ~(offset >= 4096 * 2^Shift(size))
    /\ ~((offset \div 2^Shift(size)) * 2^Shift(size) # offset)

\* base + offset into a picked (not acquired) temporary
far_address(m0, addr, offs) ==
    Bind(m0, LAMBDA m :
        LET tmp == pick_temp_gpr(m)
            m1 == unwrap(m, tmp)
        IN  IF offs < 0
            THEN emit_sub(emit_mov_imm(m1, GPR(tmp), -offs), S64, GPR(addr), GPR(tmp), GPR(tmp))
            ELSE emit_add(emit_mov_imm(m1, GPR(tmp), offs), S64, GPR(addr), GPR(tmp), GPR(tmp)))

MoveLocation(m, size, source, dest) ==
    LET cant == Panic(m, "singlepass can't emit move_location")
    IN  CASE IsReg(source) ->
               ( CASE IsReg(dest) -> emit_mov(m, size, source, dest)
                   [] dest.k = "Memory" ->
                        IF offset_is_ok(size, dest.n) THEN emit_str(m, size, source, dest)
                        ELSE IF dest.n > -256 /\ dest.n < 256
                        THEN emit_stur(m, size, dest, dest.r, dest.n)
                        ELSE emit_str(far_address(m, dest.r, dest.n), size, source,
                                      GPR(pick_temp_gpr(m)))
                   [] OTHER -> cant )
          [] IsImm(source) ->
               ( CASE dest.k = "GPR" -> emit_mov(m, size, source, dest)
                   [] OTHER -> cant )
          [] source.k = "Memory" ->
               ( CASE dest.k = "GPR" ->
                        IF offset_is_ok(size, source.n) THEN emit_ldr(m, size, dest, source)
                        ELSE IF source.n > -256 /\ source.n < 256
                        THEN emit_ldur(m, size, dest, source.r, source.n)
                        ELSE emit_ldr(far_address(m, source.r, source.n), size, source,
                                      GPR(pick_temp_gpr(m)))
                   [] OTHER -> cant )
          [] OTHER -> cant

move_location(m0, size, source, dest) ==
    Bind(m0, LAMBDA m : MoveLocation(m, size, source, dest))

\* the raw emitter function handed to a relaxed operation
RawOp(m, op, sz, src, dst) ==
    CASE op = "emit_mov" -> emit_mov(m, sz, src, dst)
      [] op = "emit_add2" -> emit_add2(m, sz, src, dst)

\* with one temporary: load src, apply the raw op from the temporary
relaxed_with_temp(m0, op, sz, src, dst) ==
    Bind(m0, LAMBDA m :
        LET temp == pick_temp_gpr(m)
            m1 == unwrap(acquire_temp_gpr(m), temp)
            m2 == move_location(m1, sz, src, GPR(temp))
            m3 == RawOp(m2, op, sz, GPR(temp), dst)
        IN  release_gpr(m3, temp))

\* a variant that takes its temporary before it looks at the combination
RelaxedBinopTempFirst(m, op, sz, src, dst) ==
    IF IsImm(dst)
    THEN Panic(acquire_temp_gpr(m), "singlepass can't emit relaxed_binop")
    ELSE relaxed_with_temp(m, op, sz, src, dst)

RelaxedBinopArms(m, op, sz, src, dst) ==
    CASE src.k = "GPR" /\ dst.k = "GPR" -> RawOp(m, op, sz, src, dst)
      [] src.k = "Memory" /\ dst.k = "Memory" ->
            LET temp_src == pick_temp_gpr(m)
            IN  Bind(unwrap(acquire_temp_gpr(m), temp_src), LAMBDA m1 :
                    LET temp_dst == pick_temp_gpr(m1)
                        m2 == unwrap(acquire_temp_gpr(m1), temp_dst)
                        m3 == move_location(m2, sz, src, GPR(temp_src))
                        m4 == move_location(m3, sz, dst, GPR(temp_dst))
                        m5 == RawOp(m4, op, sz, GPR(temp_src), GPR(temp_dst))
                    IN  release_gpr(release_gpr(m5, temp_dst), temp_src))
      [] src.k \in {"Imm64", "Imm32"} /\ dst.k \in {"Memory", "GPR"} ->
            relaxed_with_temp(m, op, sz, src, dst)
      [] dst.k = "SIMD" -> relaxed_with_temp(m, op, sz, src, dst)
      [] OTHER -> Panic(m, "singlepass can't emit relaxed_binop")

emit_relaxed_binop(m0, op, sz, src, dst) ==
    Bind(m0, LAMBDA m : RelaxedBinopArms(m, op, sz, src, dst))

\* a placeholder: its body is unimplemented!()
emit_relaxed_mov(m, sz, src, dst) == Panic(m, "not implemented")

emit_binop_i32(m0, f, loc_a, loc_b, ret) ==
    Bind(m0, LAMBDA m :
        IF loc_a # ret
        THEN LET tmp == pick_temp_gpr(m)
                 m1 == unwrap(acquire_temp_gpr(m), tmp)
                 m2 == emit_relaxed_mov(m1, S32, loc_a, GPR(tmp))
                 m3 == emit_relaxed_binop(m2, f, S32, loc_b, GPR(tmp))
                 m4 == emit_relaxed_mov(m3, S32, GPR(tmp), ret)
             IN  release_gpr(m4, tmp)
        ELSE emit_relaxed_binop(m, f, S32, loc_b, ret))

emit_binop_add32(m, loc_a, loc_b, ret) == emit_binop_i32(m, "emit_add2", loc_a, loc_b, ret)

reserve_gpr(m, gpr) == [m EXCEPT !.used_gprs = @ \cup {gpr}]

emit_function_prolog_frame_first(m) ==
    emit_double_push(move_location(m, S64, GPR("XzrSp"), GPR("X27")),
                     S64, GPR("X27"), GPR("X30"))

emit_function_prolog(m) ==
    move_location(emit_double_push(m, S64, GPR("X27"), GPR("X30")),
                  S64, GPR("XzrSp"), GPR("X27"))

emit_function_epilog(m) ==
    emit_double_pop(move_location(m, S64, GPR("X27"), GPR("XzrSp")),
                    S64, GPR("X27"), GPR("X30"))

----------------------------------------------------------------------------
(* Trap table and instruction address map *)

\* canonicalize_nan is a stub that aborts
canonicalize_nan(m, sz, input, output) == Panic(m, "not implemented")

emit_function_return_value(m, ty, canonicalize, loc) ==
    IF canonicalize
    THEN IF ty \in {"F32", "F64"}
         THEN canonicalize_nan(m, IF ty = "F32" THEN S32 ELSE S64, loc, GPR("X0"))
         ELSE Panic(m, "internal error: entered unreachable code")
    ELSE emit_relaxed_mov(m, S64, loc, GPR("X0"))

get_gpr_for_ret == "X26"

\* `as u32': the low 32 bits
AsU32(n) == Low32(Word(n))[1] + Limb * Low32(Word(n))[2]

Relocation(kind, reloc_target, offset, addend) ==
    [kind |-> kind, reloc_target |-> reloc_target, offset |-> offset, addend |-> addend]

\* one record and the movk it is for; st is the machine and the list
RelocAndMovk(st, kind, reloc_target, shift) ==
    Bind(st, LAMBDA t :
        [m |-> emit_movk(t.m, GPR("X26"), 0, shift),
         relocations |-> Append(t.relocations,
                                Relocation(kind, reloc_target, AsU32(get_offset(t.m)), 0))])

\* every record carries the offset at entry
move_with_reloc_one_offset(m, reloc_target, relocs) ==
    [m |-> emit_movk(emit_movk(emit_movk(emit_movk(m, GPR("X26"), 0, 0), GPR("X26"), 0, 16),
                               GPR("X26"), 0, 32), GPR("X26"), 0, 48),
     relocations |-> relocs \o [i \in 1..4 |->
         Relocation(<<"Arm64Movw0", "Arm64Movw1", "Arm64Movw2", "Arm64Movw3">>[i],
                    reloc_target, AsU32(get_offset(m)), 0)]]

move_with_reloc(m, reloc_target, relocs) ==
    RelocAndMovk(RelocAndMovk(RelocAndMovk(RelocAndMovk(
        [m |-> m, relocations |-> relocs],
        "Arm64Movw0", reloc_target, 0),
        "Arm64Movw1", reloc_target, 16),
        "Arm64Movw2", reloc_target, 32),
        "Arm64Movw3", reloc_target, 48)

set_srcloc(m, offset) == [m EXCEPT !.src_loc = offset]

mark_instruction_address_end_at_front(m0, begin) ==
    Bind(m0, LAMBDA m :
        IF Panicked(m) THEN m
        ELSE [m EXCEPT !.instructions_address_map =
                    <<[srcloc |-> m.src_loc,
                       code_offset |-> begin,
                       code_len |-> get_offset(m) - begin]>> \o @])

mark_instruction_address_end(m0, begin) ==
    Bind(m0, LAMBDA m :
        IF Panicked(m) THEN m
        ELSE [m EXCEPT !.instructions_address_map =
                    Append(@, [srcloc |-> m.src_loc,
                               code_offset |-> begin,
                               code_len |-> get_offset(m) - begin])])

mark_address_range_first_offset_only(m0, code, begin, end) ==
    Bind(m0, LAMBDA m :
        IF Panicked(m) THEN m
        ELSE mark_instruction_address_end(
                [m EXCEPT !.trap_table = (begin :> code) @@ @], begin))

mark_address_range_with_trap_code(m0, code, begin, end) ==
    Bind(m0, LAMBDA m :
        IF Panicked(m) THEN m
        ELSE mark_instruction_address_end(
                [m EXCEPT !.trap_table = [i \in begin..(end - 1) |-> code] @@ @], begin))

\* the records of the table, by increasing code offset
RECURSIVE TrapRecords(_, _)
TrapRecords(table, offsets) ==
    IF offsets = {} THEN <<>>
    ELSE LET o == CHOOSE x \in offsets : \A y \in offsets : x <= y
         IN  <<[code_offset |-> o, trap_code |-> table[o]]>>
                 \o TrapRecords(table, offsets \ {o})

collect_trap_information(m) == TrapRecords(m.trap_table, DOMAIN m.trap_table)

instructions_address_map(m) == m.instructions_address_map

----------------------------------------------------------------------------
(* Bounds-checked memory access *)

get_vmctx_reg == "X28"

\* the access callbacks of the i32 loads: |this, addr| this.assembler.emit_x(S32, ret, addr, 0)
ApplyCb(m, cb, addr) ==
    CASE cb.f = "emit_ldur" -> emit_ldur(m, S32, cb.ret, addr, 0)
      [] cb.f = "emit_ldrb" -> emit_ldrb(m, S32, cb.ret, addr, 0)
      [] cb.f = "emit_ldrsb" -> emit_ldrsb(m, S32, cb.ret, addr, 0)
      [] cb.f = "emit_ldrh" -> emit_ldrh(m, S32, cb.ret, addr, 0)
      [] cb.f = "emit_ldrsh" -> emit_ldrsh(m, S32, cb.ret, addr, 0)

\* lines 186-206: the three temporaries and the places of base and bound
Resolved(m, m2, tmp_addr, imported_memories, offset) ==
    LET tmp_base == pick_temp_gpr(m2)
        m3 == unwrap(acquire_temp_gpr(m2), tmp_base)
    IN  Bind(m3, LAMBDA m3v :
    LET tmp_bound == pick_temp_gpr(m3v)
        m4 == unwrap(acquire_temp_gpr(m3v), tmp_bound)
    IN  [ m |-> m4,
          tmp_addr |-> tmp_addr,
          tmp_base |-> tmp_base,
          tmp_bound |-> tmp_bound,
          base_loc |-> IF imported_memories THEN Memory(tmp_addr, 0)
                       ELSE Memory(get_vmctx_reg, offset),
          bound_loc |-> IF imported_memories THEN Memory(tmp_addr, 8)
                        ELSE Memory(get_vmctx_reg, offset + 8) ])

mo_resolve(m0, imported_memories, offset) ==
    Bind(m0, LAMBDA m :
        LET tmp_addr == pick_temp_gpr(m)
            m1 == unwrap(acquire_temp_gpr(m), tmp_addr)
            m2 == IF imported_memories
                  THEN emit_relaxed_binop(m1, "emit_mov", S64,
                                          Memory(get_vmctx_reg, offset), GPR(tmp_addr))
                  ELSE m1
        IN  Bind(m2, LAMBDA m2v : Resolved(m, m2v, tmp_addr, imported_memories, offset)))

\* lines 208-244: load the base and, when checking, the effective bound
mo_bound(r, value_size, need_check) ==
    LET m1 == emit_ldr(r.m, S64, GPR(r.tmp_base), r.base_loc)
        m2 == emit_ldr(m1, S64, GPR(r.tmp_bound), r.bound_loc)
        m3 == emit_add(m2, S64, GPR(r.tmp_bound), GPR(r.tmp_base), GPR(r.tmp_bound))
    IN  IF ~need_check THEN m1
        ELSE IF value_size < 256
        THEN emit_sub(m3, S64, GPR(r.tmp_bound), GPR(r.tmp_bound), Imm8(value_size))
        ELSE emit_sub(emit_mov_imm(m3, GPR(r.tmp_base), value_size),
                      S64, GPR(r.tmp_bound), GPR(r.tmp_base), GPR(r.tmp_bound))

\* lines 246-264: the effective address, with the overflow branch
mo_effective(m, r, addr, memarg, heap_access_oob) ==
    LET m1 == emit_mov(m, S32, addr, GPR(r.tmp_addr))
    IN  IF memarg.offset # 0
        THEN emit_bcond_label(
                emit_add(m1, S32, Imm32(memarg.offset), GPR(r.tmp_addr), GPR(r.tmp_addr)),
                "Cs", heap_access_oob)
        ELSE m1

\* the base temporary stays in use
mo_real_keeps_base(m, r, need_check, heap_access_oob) ==
    LET m1 == emit_add(m, S64, GPR(r.tmp_base), GPR(r.tmp_addr), GPR(r.tmp_addr))
        m2 == IF need_check
              THEN emit_bcond_label(emit_cmp(m1, S64, GPR(r.tmp_bound), GPR(r.tmp_addr)),
                                    "Hi", heap_access_oob)
              ELSE m1
    IN  release_gpr(m2, r.tmp_bound)

\* lines 266-285: the real address, the bound comparison, release of base and bound
mo_real(m, r, need_check, heap_access_oob) ==
    LET m1 == emit_add(m, S64, GPR(r.tmp_base), GPR(r.tmp_addr), GPR(r.tmp_addr))
        m2 == IF need_check
              THEN emit_bcond_label(emit_cmp(m1, S64, GPR(r.tmp_bound), GPR(r.tmp_addr)),
                                    "Hi", heap_access_oob)
              ELSE m1
    IN  release_gpr(release_gpr(m2, r.tmp_bound), r.tmp_base)

\* lines 287-296: the alignment test.  align is a u8: align - 1 with align = 0
\* panics in a build with overflow checks and wraps to 255 in one without.
mo_align(m, r, memarg, check_alignment, heap_access_oob, overflow_checks) ==
    IF check_alignment /\ memarg.align # 1
    THEN IF memarg.align = 0 /\ overflow_checks
         THEN Panic(m, "attempt to subtract with overflow")
         ELSE emit_bcond_label(
                 emit_tst(m, S64, Imm32((memarg.align - 1) % 256), GPR(r.tmp_addr)),
                 "Ne", heap_access_oob)
    ELSE m

\* lines 297-302: the access itself, recorded in the trap table and the address map
mo_access(m0, r, cb) ==
    Bind(m0, LAMBDA m :
        Bind(ApplyCb(m, cb, r.tmp_addr), LAMBDA m1 :
            release_gpr(mark_address_range_with_trap_code(
                            m1, "HeapAccessOutOfBounds", get_offset(m), get_offset(m1)),
                        r.tmp_addr)))

\* the machine just before the real address is formed (line 266)
mo_before_real(m, addr, memarg, value_size, need_check, imported_memories, offset, heap_access_oob) ==
    Bind(mo_resolve(m, imported_memories, offset), LAMBDA r :
        mo_effective(mo_bound(r, value_size, need_check), r, addr, memarg, heap_access_oob))

memory_op(m, addr, memarg, check_alignment, value_size, need_check, imported_memories, offset, heap_access_oob, cb, overflow_checks) ==
    Bind(mo_resolve(m, imported_memories, offset), LAMBDA r :
        LET m1 == mo_effective(mo_bound(r, value_size, need_check), r, addr, memarg,
                               heap_access_oob)
            m2 == mo_real(m1, r, need_check, heap_access_oob)
            m3 == mo_align(m2, r, memarg, check_alignment, heap_access_oob, overflow_checks)
        IN  mo_access(m3, r, cb))

\* the i32 loads: memory_op without alignment check, with the access size and callback
i32_load(m, addr, memarg, ret, need_check, imported_memories, offset, heap_access_oob) ==
    memory_op(m, addr, memarg, FALSE, 4, need_check, imported_memories, offset,
              heap_access_oob, [f |-> "emit_ldur", ret |-> ret], FALSE)

i32_load_8u(m, addr, memarg, ret, need_check, imported_memories, offset, heap_access_oob) ==
    memory_op(m, addr, memarg, FALSE, 1, need_check, imported_memories, offset,
              heap_access_oob, [f |-> "emit_ldrb", ret |-> ret], FALSE)

i32_load_8s(m, addr, memarg, ret, need_check, imported_memories, offset, heap_access_oob) ==
    memory_op(m, addr, memarg, FALSE, 1, need_check, imported_memories, offset,
              heap_access_oob, [f |-> "emit_ldrsb", ret |-> ret], FALSE)

i32_load_16u(m, addr, memarg, ret, need_check, imported_memories, offset, heap_access_oob) ==
    memory_op(m, addr, memarg, FALSE, 2, need_check, imported_memories, offset,
              heap_access_oob, [f |-> "emit_ldrh", ret |-> ret], FALSE)

i32_load_16s(m, addr, memarg, ret, need_check, imported_memories, offset, heap_access_oob) ==
    memory_op(m, addr, memarg, FALSE, 2, need_check, imported_memories, offset,
              heap_access_oob, [f |-> "emit_ldrsh", ret |-> ret], FALSE)

----------------------------------------------------------------------------
(* Saving and restoring the registers in use *)

mark_address_with_trap_code_fresh_table(m0, code) ==
    Bind(m0, LAMBDA m :
        IF Panicked(m) THEN m
        ELSE mark_instruction_address_end(
                [m EXCEPT !.trap_table = (get_offset(m) :> code)], get_offset(m)))

mark_address_with_trap_code(m0, code) ==
    Bind(m0, LAMBDA m :
        IF Panicked(m) THEN m
        ELSE mark_instruction_address_end(
                [m EXCEPT !.trap_table = (get_offset(m) :> code) @@ @], get_offset(m)))

\* returns the offset that it marked; no entry of the address map
mark_instruction_with_trap_code(m0, code) ==
    Bind(m0, LAMBDA m :
        IF Panicked(m) THEN m
        ELSE [m EXCEPT !.trap_table = (get_offset(m) :> code) @@ @])

insert_stackoverflow(m0) ==
    Bind(m0, LAMBDA m :
        IF Panicked(m) THEN m
        ELSE mark_instruction_address_end(
                [m EXCEPT !.trap_table = (0 :> "StackOverflow") @@ @], 0))

\* the elements of an in-use set in the order its hasher yields them
Iterate(order, all, used) ==
    SelectSeq(order \o SelectSeq(all, LAMBDA r : r \notin Range(order)),
              LAMBDA r : r \in used)

get_used_gprs(m) == Iterate(m.hasher.gprs, GprList, m.used_gprs)

get_used_simd(m) == Iterate(m.hasher.simd, TempSimds, m.used_simd)

reserve_simd(m, simd) == [m EXCEPT !.used_simd = @ \cup {simd}]

RECURSIVE PushEach(_, _)
PushEach(m, regs) ==
    IF regs = <<>> THEN m
    ELSE PushEach(emit_push(m, S64, GPR(Head(regs))), Tail(regs))

push_used_gpr(m0) == Bind(m0, LAMBDA m : PushEach(m, get_used_gprs(m)))

RECURSIVE PopEach(_, _)
PopEach(m, regs) ==
    IF regs = <<>> THEN m
    ELSE PopEach(emit_pop(m, S64, GPR(Head(regs))), Tail(regs))

\* the registers are reloaded in the order in which they were saved
pop_used_gpr_same_order(m0) == Bind(m0, LAMBDA m : PopEach(m, get_used_gprs(m)))

pop_used_gpr(m0) == Bind(m0, LAMBDA m : PopEach(m, Reversed(get_used_gprs(m))))

adjust_stack(m0, delta_stack_offset) ==
    Bind(m0, LAMBDA m :
        IF delta_stack_offset < 256
        THEN emit_sub(m, S64, GPR("XzrSp"), Imm8(delta_stack_offset), GPR("XzrSp"))
        ELSE LET tmp == pick_temp_gpr(m)
             IN  emit_sub(emit_mov_imm(unwrap(m, tmp), GPR(tmp), delta_stack_offset),
                          S64, GPR("XzrSp"), GPR(tmp), GPR("XzrSp")))

restore_stack(m0, delta_stack_offset) ==
    Bind(m0, LAMBDA m :
        IF delta_stack_offset < 256
        THEN emit_add(m, S64, GPR("XzrSp"), Imm8(delta_stack_offset), GPR("XzrSp"))
        ELSE LET tmp == pick_temp_gpr(m)
             IN  emit_add(emit_mov_imm(unwrap(m, tmp), GPR(tmp), delta_stack_offset),
                          S64, GPR("XzrSp"), GPR(tmp), GPR("XzrSp")))

\* the i-th register (from 0) goes to the i-th 8-byte slot
RECURSIVE StoreEach(_, _, _)
StoreEach(m, regs, i) ==
    IF regs = <<>> THEN m
    ELSE StoreEach(emit_str(m, S64, SIMD(Head(regs)), Memory("XzrSp", i * 8)),
                   Tail(regs), i + 1)

push_used_simd(m0) ==
    Bind(m0, LAMBDA m :
        LET used_neons == get_used_simd(m)
        IN  StoreEach(adjust_stack(m, Len(used_neons) * 8), used_neons, 0))

RECURSIVE LoadEach(_, _, _)
LoadEach(m, regs, i) ==
    IF regs = <<>> THEN m
    ELSE LoadEach(emit_ldr(m, S64, SIMD(Head(regs)), Memory("XzrSp", i * 8)),
                  Tail(regs), i + 1)

pop_used_simd(m0) ==
    Bind(m0, LAMBDA m :
        LET used_neons == get_used_simd(m)
            m1 == LoadEach(m, used_neons, 0)
        IN  IF Len(used_neons) * 8 < 256
            THEN emit_add(m1, S64, GPR("XzrSp"), Imm8(Len(used_neons) * 8), GPR("XzrSp"))
            ELSE LET tmp == pick_temp_gpr(m)
                 IN  emit_add(emit_mov_imm(unwrap(m1, tmp), GPR(tmp), Len(used_neons) * 8),
                              S64, GPR("XzrSp"), GPR(tmp), GPR("XzrSp")))

----------------------------------------------------------------------------
(* Bounds of the model *)

MaxTwinCode == 2
MaxFrameCode == 7

MaxStackCode == 10
MaxDepth == 4
MaxRelaxedCode == 2
MaxMemCode == 5

----------------------------------------------------------------------------
(* The driver: one action per machine call *)

\* the stack pointer at function entry: 16-byte aligned
SP0 == <<32768, 0, 0, 0>>

\* the frame base (X27) and the context pointer (X28) of the running function
FP0 == <<16384, 0, 0, 0>>
VMCTX0 == <<4096, 0, 0, 0>>

FrameOffsets == {8, 16, -8, -16, -512}

cpu0 ==
    [ x |-> [r \in GPRs |->
                CASE r = "X27" -> FP0
                  [] r = "X28" -> VMCTX0
                  [] OTHER -> <<IndexOf(GprList, r), 7, 0, 0>>],
      v |-> [r \in NEONs |-> <<IndexOf(TempSimds, r), 9, 0, 0>>],
      sp |-> SP0,
      mem |-> [a \in {Add64(FP0, Offs(o)) : o \in FrameOffsets} |-> <<a[1] % 97, 5, 0, 0>>],
      carry |-> FALSE,
      zero |-> FALSE,
      trapped |-> FALSE ]

Fresh(m) == [m EXCEPT !.log = <<>>]

Running(maxCode) == ~Panicked(mach) /\ Len(mach.assembler) < maxCode

\* the call `op(args)` took mach to m
Called(op, args, m0) ==
    \E m \in {m0} :
        /\ mach' = m
        /\ pre' = [mach |-> Fresh(mach), cpu |-> cpu]
        /\ call' = [op |-> op, args |-> args]
        /\ cpu' = Run(cpu, Emitted(mach, m))
        /\ UNCHANGED <<globals, relocations>>

PushArgs == {<<S64, GPR("X0")>>, <<S64, GPR("X1")>>, <<S64, SIMD("V0")>>, <<S32, GPR("X0")>>}
PopArgs == {<<S64, GPR("X2")>>, <<S64, SIMD("V1")>>, <<S64, Memory("X27", 8)>>}

EmitPush ==
    \E a \in PushArgs :
        LET sz == a[1]
            src == a[2]
            m == emit_push(Fresh(mach), sz, src)
        IN  /\ Running(MaxStackCode)
            /\ Len(vstack) < MaxDepth
            /\ Called("emit_push", <<sz, src>>, m)
            /\ vstack' = IF Panicked(m) THEN vstack ELSE Append(vstack, Val(cpu, src))
            /\ UNCHANGED twin

EmitPop ==
    \E a \in PopArgs :
        LET sz == a[1]
            dst == a[2]
            m == emit_pop(Fresh(mach), sz, dst)
        IN  /\ Running(MaxStackCode)
            /\ vstack # <<>>
            /\ Called("emit_pop", <<sz, dst>>, m)
            /\ vstack' = IF Panicked(m) THEN vstack ELSE SubSeq(vstack, 1, Len(vstack) - 1)
            /\ UNCHANGED twin

InitStack ==
    /\ mach = new
    /\ pre = [mach |-> new, cpu |-> cpu0]
    /\ call = [op |-> "new", args |-> <<>>]
    /\ cpu = cpu0
    /\ vstack = <<>>
    /\ twin = new
    /\ globals = NoGlobals
    /\ relocations = <<>>

NextStack == EmitPush \/ EmitPop

SpecStack == InitStack /\ [][NextStack]_vars

----------------------------------------------------------------------------
(* C1 *)

Count(code, op) == Cardinality({i \in DOMAIN code : code[i].op = op})

\* C1: once every value pushed by emit_push has been popped by emit_pop, the
\* stack pointer is back at its value at entry and the parity flag is clear
\* again, whatever the interleaving of 64-bit pushes and pops was.
C1_Balanced ==
    (~Panicked(mach) /\ vstack = <<>>) => (cpu.sp = SP0 /\ mach.pushed = FALSE)

C1_Witness ==
    /\ ~Panicked(mach)
    /\ vstack = <<>>
    /\ Count(mach.assembler, "str") >= 3
    /\ Count(mach.assembler, "ldr") >= 3

\* C12: after n single pushes not yet popped the stack pointer is 16 * ceil(n/2)
\* below its value at entry and the parity flag is set exactly when n is odd;
\* each pop returns the value pushed last among those not yet popped.
C12_PushPopDiscipline ==
    /\ [](~Panicked(mach) =>
            /\ cpu.sp = Sub64(SP0, Word(16 * ((Len(vstack) + 1) \div 2)))
            /\ mach.pushed = (Len(vstack) % 2 = 1))
    /\ [][(call'.op = "emit_pop" /\ ~Panicked(mach')) =>
            Val(cpu', call'.args[2]) = vstack[Len(vstack)]]_vars

\* three pushes took two slots, and the last of them has been popped
C12_Witness ==
    /\ call.op = "emit_pop"
    /\ ~Panicked(mach)
    /\ Len(vstack) = 2
    /\ Count(mach.assembler, "str") = 3
    /\ Count(mach.assembler, "sub") = 2

\* the report that names the operation requested
ReportOf(op) ==
    CASE op = "emit_push" -> "singlepass can't emit PUSH"
      [] op = "emit_pop" -> "singlepass can't emit POP"

\* C20: an abort raised by emit_push or emit_pop for a combination that it
\* does not support reports the name of the operation that was requested.
C20_AbortNamesOperation ==
    (Panicked(mach) /\ call.op \in {"emit_push", "emit_pop"}) =>
        mach.panic = ReportOf(call.op)


----------------------------------------------------------------------------
(* The driver of relaxed operations and of the register allocator *)

RelaxedSrcs ==
    { GPR("X1"), Memory("X27", 8), Memory("X27", -8), Memory("X27", -512),
      Imm8(1), Imm32(5), Imm64(7), SIMD("V1") }
RelaxedDsts ==
    { GPR("X0"), GPR("X19"), Memory("X27", 16), Memory("X27", -16), SIMD("V0"), Imm32(0) }

RelaxedArgs ==
    {<<"emit_add2", S64, src, dst>> : src \in RelaxedSrcs, dst \in RelaxedDsts}
        \cup {<<"emit_mov", S32, src, dst>> : src \in {Memory("X27", 8), Imm32(5)},
                                            dst \in {Memory("X27", 16), GPR("X0")}}

Idle == UNCHANGED <<vstack, twin>>

RelaxedBinop ==
    \E a \in RelaxedArgs :
        /\ Running(MaxRelaxedCode)
        /\ Called("emit_relaxed_binop", a,
                  emit_relaxed_binop(Fresh(mach), a[1], a[2], a[3], a[4]))
        /\ Idle

ReserveGpr ==
    \E r \in {"X1", "X3"} :
        /\ Running(MaxRelaxedCode)
        /\ Called("reserve_gpr", <<r>>, reserve_gpr(Fresh(mach), r))
        /\ Idle

AcquireTempGpr ==
    /\ Running(MaxRelaxedCode)
    /\ Called("acquire_temp_gpr", <<pick_temp_gpr(mach)>>, acquire_temp_gpr(Fresh(mach)))
    /\ Idle

ReleaseGpr ==
    \E r \in {"X0", "X1"} :
        /\ Running(MaxRelaxedCode)
        /\ Called("release_gpr", <<r>>, release_gpr(Fresh(mach), r))
        /\ Idle

\* loc_a is ret, or is not
Add32Args ==
    { <<GPR("X19"), GPR("X1"), GPR("X19")>>,
      <<GPR("X19"), GPR("X1"), GPR("X0")>>,
      <<GPR("X1"), GPR("X19"), GPR("X19")>> }

BinopAdd32 ==
    \E a \in Add32Args :
        /\ Running(MaxRelaxedCode)
        /\ Called("emit_binop_add32", a, emit_binop_add32(Fresh(mach), a[1], a[2], a[3]))
        /\ Idle

NextRelaxed == RelaxedBinop \/ ReserveGpr \/ AcquireTempGpr \/ ReleaseGpr \/ BinopAdd32

SpecRelaxed == InitStack /\ [][NextRelaxed]_vars

----------------------------------------------------------------------------
(* C2 *)

Acquires(log) == {i \in DOMAIN log : log[i][1] = "acquire"}

CompletedRelaxed == call.op = "emit_relaxed_binop" /\ ~Panicked(mach)

\* C2: a call of emit_relaxed_binop that returns leaves used_gprs and used_simd
\* as they were at entry; each temporary it acquired it also released, and
\* the temporaries it acquired are distinct registers, none in use at entry.
C2_NoLeak ==
    CompletedRelaxed =>
        /\ mach.used_gprs = pre.mach.used_gprs
        /\ mach.used_simd = pre.mach.used_simd
        /\ \A i \in Acquires(mach.log) :
              /\ \E j \in DOMAIN mach.log : j > i /\ mach.log[j] = <<"release", mach.log[i][2]>>
              /\ mach.log[i][2] \notin pre.mach.used_gprs
              /\ \A k \in Acquires(mach.log) : k # i => mach.log[k][2] # mach.log[i][2]

C2_Witness ==
    /\ CompletedRelaxed
    /\ Cardinality(Acquires(mach.log)) = 2
    /\ pre.mach.used_gprs # {}

----------------------------------------------------------------------------
(* C6 *)

\* what the raw operation leaves in its destination
RawResult(op, sz, d, s) == IF op = "emit_mov" THEN Sized(sz, s) ELSE Sized(sz, Add64(d, s))

\* C6: after emit_relaxed_binop on two Memory locations, the code emitted is
\* two loads into two temporaries and the raw operation on them, and the dst
\* memory location holds the result of the operation on the old dst and src.
C6_MemoryDestinationHoldsResult ==
    (CompletedRelaxed /\ call.args[3].k = "Memory" /\ call.args[4].k = "Memory") =>
        LET code == Emitted(pre.mach, mach)
            src == call.args[3]
            dst == call.args[4]
        IN  /\ Len(code) >= 3
            /\ code[1].op = "ldr" /\ code[2].op = "ldr"
            /\ code[1].d # code[2].d
            /\ Val(cpu, dst) =
                   RawResult(call.args[1], call.args[2], Val(pre.cpu, dst), Val(pre.cpu, src))

----------------------------------------------------------------------------
(* C18, C19 *)

\* the combinations that the relaxation policy supports
InPolicy(src, dst) ==
    \/ src.k = "GPR" /\ dst.k = "GPR"
    \/ src.k = "Memory" /\ dst.k = "Memory"
    \/ IsImm(src) /\ dst.k \in {"Memory", "GPR"}
    \/ dst.k = "SIMD"

RelaxedCall == call.op = "emit_relaxed_binop"

\* C18: emit_relaxed_binop on a combination outside the policy aborts at
\* once: no temporary was acquired, no instruction was emitted, and the sets
\* of registers in use are as they were.
C18_UnsupportedAbortsAtOnce ==
    (RelaxedCall /\ ~InPolicy(call.args[3], call.args[4])) =>
        /\ mach.panic = "singlepass can't emit relaxed_binop"
        /\ mach.log = <<>>
        /\ Emitted(pre.mach, mach) = <<>>
        /\ mach.used_gprs = pre.mach.used_gprs
        /\ mach.used_simd = pre.mach.used_simd

\* a register source with a memory destination, while a temporary is free
C18_Witness ==
    /\ RelaxedCall
    /\ call.args[3].k = "GPR"
    /\ call.args[4].k = "Memory"
    /\ Panicked(mach)
    /\ pick_temp_gpr(pre.mach) # None
    /\ pre.mach.used_gprs # {}

\* C19: with an immediate source of any of the three widths and a Memory or
\* GPR destination, and a temporary free, emit_relaxed_binop acquires exactly
\* one temporary, moves the immediate into it first, and releases it.
C19_ImmediateThroughOneTemporary ==
    ( /\ RelaxedCall
      /\ IsImm(call.args[3])
      /\ call.args[4].k \in {"Memory", "GPR"}
      /\ pick_temp_gpr(pre.mach) # None ) =>
        LET temp == pick_temp_gpr(pre.mach)
            code == Emitted(pre.mach, mach)
        IN  /\ Len(mach.log) >= 2
            /\ mach.log[1] = <<"acquire", temp>>
            /\ mach.log[Len(mach.log)] = <<"release", temp>>
            /\ Cardinality(Acquires(mach.log)) = 1
            /\ Len(code) >= 1
            /\ code[1].op = "mov" /\ code[1].d = GPR(temp) /\ code[1].a = call.args[3]
            /\ mach.used_gprs = pre.mach.used_gprs

\* C27: emit_binop_add32(loc_a, loc_b, ret) on registers, with a temporary
\* free, returns; ret then holds the 32-bit sum of loc_a and loc_b; the sets of
\* registers in use are as before the call, whether loc_a is ret or not.
C27_Add32Completes ==
    (call.op = "emit_binop_add32" /\ pick_temp_gpr(pre.mach) # None) =>
        /\ ~Panicked(mach)
        /\ Val(cpu, call.args[3])
              = Low32(Add64(Val(pre.cpu, call.args[1]), Val(pre.cpu, call.args[2])))
        /\ mach.used_gprs = pre.mach.used_gprs
        /\ mach.used_simd = pre.mach.used_simd

\* the part of C27 in which loc_a is ret
Add32InPlace ==
    (call.op = "emit_binop_add32" /\ call.args[1] = call.args[3]) => C27_Add32Completes

----------------------------------------------------------------------------
(* The driver of memory accesses *)

\* where the context holds a local memory's base and bound, and an imported
\* memory's pointer to its base and bound
LocalOffset == 16
ImportOffset == 32
RegionBase == <<0, 16, 0, 0>>
ImportRecord == <<512, 0, 0, 0>>

\* the guest address sits in the register of local 0, upper half not zero
AddrLoc == GPR("X18")
GuestAddrs ==
    { <<0, 0, 1, 0>>, <<3, 0, 1, 0>>, <<4, 0, 1, 0>>, <<65532, 0, 1, 0>>,
      <<0, 1, 0, 0>>, <<65535, 65535, 0, 0>> }
Bounds == { <<0, 1, 0, 0>>, <<8, 0, 0, 0>> }

MemCpu(a, l) ==
    [cpu0 EXCEPT
        !.x["X18"] = a,
        !.mem = (Add64(VMCTX0, Word(LocalOffset)) :> RegionBase)
                @@ (Add64(VMCTX0, Word(LocalOffset + 8)) :> l)
                @@ (Add64(VMCTX0, Word(ImportOffset)) :> ImportRecord)
                @@ (ImportRecord :> RegionBase)
                @@ (Add64(ImportRecord, Word(8)) :> l)]

MemArg(offset, align) == [offset |-> offset, align |-> align]

Access(memarg, check_alignment, value_size, need_check, imported_memories, cb, overflow_checks) ==
    [ addr |-> AddrLoc,
      memarg |-> memarg,
      check_alignment |-> check_alignment,
      value_size |-> value_size,
      need_check |-> need_check,
      imported_memories |-> imported_memories,
      offset |-> IF imported_memories THEN ImportOffset ELSE LocalOffset,
      cb |-> [f |-> cb, ret |-> GPR("X19")],
      overflow_checks |-> overflow_checks ]

MemoryOpArgs ==
    \* bounds checks of every access size around the bound
    { Access(MemArg(o, 1), FALSE, s, TRUE, FALSE, "emit_ldur", FALSE) :
        o \in {0, 1, 65532, 65533}, s \in {1, 4, 256} }
    \* alignment tests
    \cup { Access(MemArg(0, al), ca, 4, FALSE, FALSE, "emit_ldur", oc) :
             al \in {0, 1, 2, 4}, ca \in BOOLEAN, oc \in BOOLEAN }
    \* imported memories
    \cup { Access(MemArg(0, 1), FALSE, 4, nc, TRUE, "emit_ldur", FALSE) : nc \in BOOLEAN }

Loads == {"i32_load", "i32_load_8u", "i32_load_8s", "i32_load_16u", "i32_load_16s"}

\* the arguments of the loads: offset 0 or just below the bound, checked or not
LoadArgs ==
    { [addr |-> AddrLoc, memarg |-> MemArg(o, 1), ret |-> GPR("X19"), need_check |-> nc,
       imported_memories |-> FALSE, offset |-> LocalOffset] :
        o \in {0, 65533}, nc \in BOOLEAN }

SrcLocs == {3, 7}

SetSrcloc ==
    \E k \in SrcLocs :
        /\ Running(MaxMemCode)
        /\ k > mach.src_loc
        /\ Called("set_srcloc", <<k>>, set_srcloc(Fresh(mach), k))
        /\ Idle

MemoryOp ==
    \E a \in MemoryOpArgs :
        /\ Running(MaxMemCode)
        /\ Called("memory_op", a,
                  memory_op(Fresh(mach), a.addr, a.memarg, a.check_alignment, a.value_size,
                            a.need_check, a.imported_memories, a.offset, "heap_access_oob",
                            a.cb, a.overflow_checks))
        /\ Idle

I32Load ==
    \E a \in LoadArgs :
        /\ Running(MaxMemCode)
        /\ Called("i32_load", a,
                  i32_load(Fresh(mach), a.addr, a.memarg, a.ret, a.need_check,
                           a.imported_memories, a.offset, "heap_access_oob"))
        /\ Idle

I32Load8u ==
    \E a \in LoadArgs :
        /\ Running(MaxMemCode)
        /\ Called("i32_load_8u", a,
                  i32_load_8u(Fresh(mach), a.addr, a.memarg, a.ret, a.need_check,
                              a.imported_memories, a.offset, "heap_access_oob"))
        /\ Idle

I32Load8s ==
    \E a \in LoadArgs :
        /\ Running(MaxMemCode)
        /\ Called("i32_load_8s", a,
                  i32_load_8s(Fresh(mach), a.addr, a.memarg, a.ret, a.need_check,
                              a.imported_memories, a.offset, "heap_access_oob"))
        /\ Idle

I32Load16u ==
    \E a \in LoadArgs :
        /\ Running(MaxMemCode)
        /\ Called("i32_load_16u", a,
                  i32_load_16u(Fresh(mach), a.addr, a.memarg, a.ret, a.need_check,
                               a.imported_memories, a.offset, "heap_access_oob"))
        /\ Idle

I32Load16s ==
    \E a \in LoadArgs :
        /\ Running(MaxMemCode)
        /\ Called("i32_load_16s", a,
                  i32_load_16s(Fresh(mach), a.addr, a.memarg, a.ret, a.need_check,
                               a.imported_memories, a.offset, "heap_access_oob"))
        /\ Idle

InitMem ==
    \E a \in GuestAddrs, l \in Bounds :
        /\ mach = new
        /\ cpu = MemCpu(a, l)
        /\ pre = [mach |-> new, cpu |-> cpu]
        /\ call = [op |-> "new", args |-> <<>>]
        /\ vstack = <<>>
        /\ twin = new
        /\ globals = NoGlobals
        /\ relocations = <<>>

NextMem ==
    \/ SetSrcloc
    \/ MemoryOp
    \/ I32Load
    \/ I32Load8u
    \/ I32Load8s
    \/ I32Load16u
    \/ I32Load16s

SpecMem == InitMem /\ [][NextMem]_vars

\* the last call was a memory access (memory_op itself or one of the loads)
MemCall == call.op \in {"memory_op"} \cup Loads

\* the guest address that the call found in its address operand
GuestAddress == Low32(Val(pre.cpu, AddrLoc))

\* the bound of the local memory
BoundLength == Rd(pre.cpu, Add64(VMCTX0, Word(LocalOffset + 8)))

\* C3: a checked memory_op on a local memory branches to heap_access_oob
\* exactly when the 32-bit sum of guest address and static offset overflows or
\* address + offset + access size is greater than the bound length (unsigned,
\* 64 bits).
C3_TrapIffOutOfBounds ==
    (/\ call.op = "memory_op"
     /\ call.args.need_check
     /\ ~call.args.imported_memories
     /\ ~pre.cpu.trapped) =>
        LET O == Word(call.args.memarg.offset)
            S == Word(call.args.value_size)
            sum == Add64(Add32(GuestAddress, O), S)
        IN  /\ ~Panicked(mach)
            /\ cpu.trapped <=> (Carry32(GuestAddress, O) \/ Ult64(BoundLength, sum))

\* C4: after set_srcloc(K), a bounds-checked load leaves a trap record tagged
\* HeapAccessOutOfBounds inside the bytes it emitted and an address-map entry
\* with source offset K that lies inside those bytes.
C4_LoadRecordsTrapAndAddress ==
    (call.op \in Loads /\ call.args.need_check /\ pre.mach.src_loc \in SrcLocs) =>
        LET begin == get_offset(pre.mach)
            end == get_offset(mach)
            traps == collect_trap_information(mach)
            map == instructions_address_map(mach)
        IN  /\ ~Panicked(mach)
            /\ \E i \in DOMAIN traps :
                    /\ traps[i].trap_code = "HeapAccessOutOfBounds"
                    /\ traps[i].code_offset >= begin
                    /\ traps[i].code_offset < end
            /\ \E i \in DOMAIN map :
                    /\ map[i].srcloc = pre.mach.src_loc
                    /\ map[i].code_offset >= begin
                    /\ map[i].code_len > 0
                    /\ map[i].code_offset + map[i].code_len <= end

\* C7: memory_op on an imported memory first loads the pointer found at
\* context + offset, then carries on as for a local memory: it completes, and
\* the access reads the word at region base + guest address.
C7_ImportedMemoryResolves ==
    (/\ call.op = "memory_op"
     /\ call.args.imported_memories
     /\ ~call.args.need_check
     /\ ~pre.cpu.trapped) =>
        LET code == Emitted(pre.mach, mach)
            real == Add64(RegionBase, Add32(GuestAddress, Word(call.args.memarg.offset)))
        IN  /\ ~Panicked(mach)
            /\ Len(code) > 0
            /\ code[1].a = Memory(get_vmctx_reg, call.args.offset)
            /\ Val(cpu, call.args.cb.ret) = Low32(Rd(pre.cpu, real))

\* C8: with an access size of 256 or more, the base temporary still holds the
\* region base when the emitted code reaches the addition that forms the real
\* address.
C8_BaseTemporaryKept ==
    (/\ call.op = "memory_op"
     /\ call.args.need_check
     /\ call.args.value_size >= 256
     /\ ~call.args.imported_memories
     /\ ~pre.cpu.trapped) =>
        LET a == call.args
            before == mo_before_real(pre.mach, a.addr, a.memarg, a.value_size, a.need_check,
                                     a.imported_memories, a.offset, "heap_access_oob")
            tmp_base == mo_resolve(pre.mach, a.imported_memories, a.offset).tmp_base
        IN  /\ ~Panicked(before)
            /\ Val(Run(pre.cpu, Emitted(pre.mach, before)), GPR(tmp_base)) = RegionBase

\* C29: in a checked memory_op the subtraction of the access size writes the
\* bound temporary, and when the emitted code reaches the bound comparison the
\* bound temporary holds base + bound - value_size, for an access size below
\* 256 as for one of 256 or more.
C29_EffectiveBound ==
    (/\ call.op = "memory_op"
     /\ call.args.need_check
     /\ ~call.args.imported_memories
     /\ ~pre.cpu.trapped) =>
        LET a == call.args
            r == mo_resolve(pre.mach, a.imported_memories, a.offset)
            bounded == mo_bound(r, a.value_size, a.need_check)
            code == Emitted(pre.mach, bounded)
        IN  /\ ~Panicked(bounded)
            /\ code # <<>>
            /\ code[Len(code)].op = "sub"
            /\ code[Len(code)].d = GPR(r.tmp_bound)
            /\ Val(Run(pre.cpu, code), GPR(r.tmp_bound))
                  = Sub64(Add64(RegionBase, BoundLength), Word(a.value_size))

\* the part of C29 in which the access size is 256 or more
EffectiveBoundViaRegister ==
    (call.op = "memory_op" /\ call.args.value_size >= 256) => C29_EffectiveBound

\* the entry that the call appended to the address map, and its byte range
LastEntry == mach.instructions_address_map[Len(mach.instructions_address_map)]

Tagged(begin, end) ==
    \A i \in begin..(end - 1) :
        i \in DOMAIN mach.trap_table /\ mach.trap_table[i] = "HeapAccessOutOfBounds"

C10_AlignmentTestAboveOne ==
    (/\ call.op = "memory_op"
     /\ ~call.args.need_check
     /\ ~call.args.imported_memories
     /\ ~pre.cpu.trapped) =>
        LET a == call.args
            code == Emitted(pre.mach, mach)
            tested == \E i \in 1..(Len(code) - 1) :
                        /\ code[i].op = "tst"
                        /\ code[i + 1].op = "bcond"
                        /\ code[i + 1].c = "Ne"
                        /\ code[i + 1].a = Label("heap_access_oob")
            real == Add64(RegionBase, Add32(GuestAddress, Word(a.memarg.offset)))
        IN  /\ ~Panicked(mach)
            /\ tested <=> (a.check_alignment /\ a.memarg.align > 1)
            /\ (a.check_alignment /\ a.memarg.align = 4) =>
                    (cpu.trapped <=> (real[1] % 4 # 0))

----------------------------------------------------------------------------
(* Two machines driven by the same calls *)

HashedGprs == {"X0", "X1"}
HashedSimds == {"V0", "V1"}

\* every order in which a hasher may yield the elements of S
Orders(S) == {q \in [1..Cardinality(S) -> S] : Range(q) = S}

\* the same call on both machines
Twinned(op, args, m, t) ==
    /\ Called(op, args, m)
    /\ twin' = t
    /\ UNCHANGED vstack

TwinReserveGpr ==
    \E r \in HashedGprs :
        /\ Running(MaxTwinCode)
        /\ r \notin mach.used_gprs
        /\ Twinned("reserve_gpr", <<r>>, reserve_gpr(Fresh(mach), r), reserve_gpr(twin, r))

TwinReserveSimd ==
    \E v \in HashedSimds :
        /\ Running(MaxTwinCode)
        /\ v \notin mach.used_simd
        /\ Twinned("reserve_simd", <<v>>, reserve_simd(Fresh(mach), v), reserve_simd(twin, v))

TwinPushUsedGpr ==
    /\ Running(MaxTwinCode)
    /\ Twinned("push_used_gpr", <<>>, push_used_gpr(Fresh(mach)), push_used_gpr(twin))

TwinPopUsedGpr ==
    /\ Running(MaxTwinCode)
    /\ Twinned("pop_used_gpr", <<>>, pop_used_gpr(Fresh(mach)), pop_used_gpr(twin))

TwinPushUsedSimd ==
    /\ Running(MaxTwinCode)
    /\ Twinned("push_used_simd", <<>>, push_used_simd(Fresh(mach)), push_used_simd(twin))

TwinPopUsedSimd ==
    /\ Running(MaxTwinCode)
    /\ Twinned("pop_used_simd", <<>>, pop_used_simd(Fresh(mach)), pop_used_simd(twin))

TwinMarkAddress ==
    /\ Running(MaxTwinCode)
    /\ get_offset(mach) \notin DOMAIN mach.trap_table
    /\ Twinned("mark_address_with_trap_code", <<"HeapAccessOutOfBounds">>,
               mark_address_with_trap_code(Fresh(mach), "HeapAccessOutOfBounds"),
               mark_address_with_trap_code(twin, "HeapAccessOutOfBounds"))

InitTwin ==
    \E g1 \in Orders(HashedGprs), s1 \in Orders(HashedSimds),
       g2 \in Orders(HashedGprs), s2 \in Orders(HashedSimds) :
        /\ mach = new_keyed(g1, s1)
        /\ twin = new_keyed(g2, s2)
        /\ pre = [mach |-> mach, cpu |-> cpu0]
        /\ call = [op |-> "new", args |-> <<>>]
        /\ cpu = cpu0
        /\ vstack = <<>>
        /\ globals = NoGlobals
        /\ relocations = <<>>

NextTwin ==
    \/ TwinReserveGpr
    \/ TwinReserveSimd
    \/ TwinPushUsedGpr
    \/ TwinPopUsedGpr
    \/ TwinPushUsedSimd
    \/ TwinPopUsedSimd
    \/ TwinMarkAddress

SpecTwin == InitTwin /\ [][NextTwin]_vars

\* C5: two fresh machines driven by the same calls hold the same code buffer,
\* the same trap records and the same address map, also after push_used_gpr,
\* pop_used_gpr, push_used_simd and pop_used_simd with several registers in use.
C5_TwinsAgree ==
    /\ mach.assembler = twin.assembler
    /\ collect_trap_information(mach) = collect_trap_information(twin)
    /\ instructions_address_map(mach) = instructions_address_map(twin)

----------------------------------------------------------------------------
(* A function frame: prolog, a body of pushes and pops, epilog *)

InBody == call.op \notin {"new", "emit_function_epilog"} /\ Running(MaxFrameCode)

FramePushArgs == {GPR("X0"), GPR("X30")}
FramePopArgs == {GPR("X2"), GPR("X30")}
DoublePushArgs == {<<GPR("X0"), GPR("X1")>>, <<GPR("X1"), GPR("X1")>>, <<GPR("X0"), SIMD("V0")>>}
DoublePopArgs == {<<GPR("X2"), GPR("X3")>>, <<GPR("X30"), GPR("X2")>>, <<SIMD("V1"), GPR("X2")>>}

FrameProlog ==
    /\ call.op = "new"
    /\ Called("emit_function_prolog", <<>>, emit_function_prolog(Fresh(mach)))
    /\ Idle

FramePush ==
    \E src \in FramePushArgs :
        /\ InBody
        /\ Len(vstack) < MaxDepth
        /\ Called("emit_push", <<S64, src>>, emit_push(Fresh(mach), S64, src))
        /\ vstack' = Append(vstack, Val(cpu, src))
        /\ UNCHANGED twin

FramePop ==
    \E dst \in FramePopArgs :
        /\ InBody
        /\ vstack # <<>>
        /\ Called("emit_pop", <<S64, dst>>, emit_pop(Fresh(mach), S64, dst))
        /\ vstack' = SubSeq(vstack, 1, Len(vstack) - 1)
        /\ UNCHANGED twin

FrameDoublePush ==
    \E a \in DoublePushArgs :
        /\ InBody
        /\ Len(vstack) + 2 <= MaxDepth
        /\ Called("emit_double_push", <<S64, a[1], a[2]>>,
                  emit_double_push(Fresh(mach), S64, a[1], a[2]))
        /\ vstack' = vstack \o <<Val(cpu, a[1]), Val(cpu, a[2])>>
        /\ UNCHANGED twin

FrameDoublePop ==
    \E a \in DoublePopArgs :
        /\ InBody
        /\ Len(vstack) >= 2
        /\ Called("emit_double_pop", <<S64, a[1], a[2]>>,
                  emit_double_pop(Fresh(mach), S64, a[1], a[2]))
        /\ vstack' = SubSeq(vstack, 1, Len(vstack) - 2)
        /\ UNCHANGED twin

FrameEpilog ==
    /\ InBody
    /\ Called("emit_function_epilog", <<>>, emit_function_epilog(Fresh(mach)))
    /\ Idle

NextFrame ==
    \/ FrameProlog
    \/ FramePush
    \/ FramePop
    \/ FrameDoublePush
    \/ FrameDoublePop
    \/ FrameEpilog

SpecFrame == InitStack /\ [][NextFrame]_vars

\* the paired instruction was emitted by the last call
Paired == \E i \in DOMAIN Emitted(pre.mach, mach) :
            Emitted(pre.mach, mach)[i].op \in {"stp", "ldp"}

BothGprs == call.args[2].k = "GPR" /\ call.args[3].k = "GPR"

\* C11: emit_double_push of two 64-bit general registers leaves the stack
\* pointer, the stack contents and the parity flag that emit_push(src1) then
\* emit_push(src2) leave; emit_double_pop leaves the stack pointer, the
\* registers and the flag that emit_pop(dst2) then emit_pop(dst1) leave; the
\* paired instruction is emitted exactly when the flag is clear at entry and
\* both operands are 64-bit general registers.
C11_DoubleIsTwoSingles ==
    /\ (call.op = "emit_double_push" /\ BothGprs) =>
            LET two == emit_push(emit_push(pre.mach, S64, call.args[2]), S64, call.args[3])
                c == Run(pre.cpu, Emitted(pre.mach, two))
            IN  /\ ~Panicked(mach)
                /\ cpu.sp = c.sp
                /\ cpu.mem = c.mem
                /\ mach.pushed = two.pushed
    /\ (call.op = "emit_double_pop" /\ BothGprs) =>
            LET two == emit_pop(emit_pop(pre.mach, S64, call.args[3]), S64, call.args[2])
                c == Run(pre.cpu, Emitted(pre.mach, two))
            IN  /\ ~Panicked(mach)
                /\ cpu.sp = c.sp
                /\ cpu.x = c.x
                /\ cpu.mem = c.mem
                /\ mach.pushed = two.pushed
    /\ call.op \in {"emit_double_push", "emit_double_pop"} =>
            (Paired <=> (~pre.mach.pushed /\ call.args[1] = S64 /\ BothGprs))

\* a paired pop in a body that also holds a paired push and a single push
C11_Witness ==
    /\ call.op = "emit_double_pop"
    /\ BothGprs
    /\ Paired
    /\ ~Panicked(mach)
    /\ \E i \in DOMAIN mach.assembler :
          /\ i > 2
          /\ mach.assembler[i].op = "stp"
    /\ Count(mach.assembler, "str") >= 1

\* C14: the prolog of a fresh machine stores X27 and X30 as one pair and then
\* copies the stack pointer to X27; the epilog copies X27 to the stack pointer
\* and then loads the pair; after a prolog, a balanced body that leaves X27
\* alone and an epilog, SP, X27 and X30 hold their values at entry.
C14_FrameRestored ==
    /\ call.op = "emit_function_prolog" =>
            /\ Emitted(pre.mach, mach)
                 = << Ins("stp", S64, GPR("X27"), GPR("X30"), Memory("XzrSp", 16), ""),
                      Ins("mov", S64, GPR("XzrSp"), NoLoc, GPR("X27"), "") >>
            /\ cpu.sp = Sub64(SP0, Word(16))
            /\ cpu.x["X27"] = cpu.sp
            /\ Rd(cpu, cpu.sp) = FP0
            /\ Rd(cpu, Add64(cpu.sp, Word(8))) = cpu0.x["X30"]
    /\ (call.op = "emit_function_epilog" /\ vstack = <<>>) =>
            /\ ~Panicked(mach)
            /\ Emitted(pre.mach, mach)
                 = << Ins("mov", S64, GPR("X27"), NoLoc, GPR("XzrSp"), ""),
                      Ins("ldp", S64, Memory("XzrSp", 16), GPR("X30"), GPR("X27"), "") >>
            /\ cpu.sp = SP0
            /\ cpu.x["X27"] = FP0
            /\ cpu.x["X30"] = cpu0.x["X30"]

\* an epilog after a body that pushed, overwrote X30 and popped everything
C14_Witness ==
    /\ call.op = "emit_function_epilog"
    /\ vstack = <<>>
    /\ ~Panicked(mach)
    /\ Len(mach.assembler) >= 6
    /\ \E i \in DOMAIN mach.assembler :
          mach.assembler[i].op = "ldr" /\ mach.assembler[i].d = GPR("X30")

----------------------------------------------------------------------------
(* The driver of the register allocator *)

\* a call that returns `ret`
Returned(op, ret, m) == Called(op, <<ret>>, m) /\ Idle

AllocAcquireGpr ==
    /\ ~Panicked(mach)
    /\ Returned("acquire_temp_gpr", pick_temp_gpr(mach), acquire_temp_gpr(Fresh(mach)))

AllocAcquireSimd ==
    /\ ~Panicked(mach)
    /\ Returned("acquire_temp_simd", pick_temp_simd(mach), acquire_temp_simd(Fresh(mach)))

AllocReleaseGpr ==
    \E r \in {"X0", "X3", "X7"} :
        /\ ~Panicked(mach)
        /\ Returned("release_gpr", r, release_gpr(Fresh(mach), r))

AllocReleaseSimd ==
    \E v \in {"V0", "V7"} :
        /\ ~Panicked(mach)
        /\ Returned("release_simd", v, release_simd(Fresh(mach), v))

AllocReserveGpr ==
    \E r \in {"X1", "X18"} :
        /\ ~Panicked(mach)
        /\ Returned("reserve_gpr", r, reserve_gpr(Fresh(mach), r))

AllocReserveSimd ==
    /\ ~Panicked(mach)
    /\ Returned("reserve_simd", "V2", reserve_simd(Fresh(mach), "V2"))

\* the four pick functions take &self: they return a register and leave the machine alone
AllocPick ==
    \E f \in {"pick_gpr", "pick_temp_gpr", "pick_simd", "pick_temp_simd"} :
        /\ ~Panicked(mach)
        /\ Returned(f,
                    CASE f = "pick_gpr" -> pick_gpr(mach)
                      [] f = "pick_temp_gpr" -> pick_temp_gpr(mach)
                      [] f = "pick_simd" -> pick_simd(mach)
                      [] OTHER -> pick_temp_simd(mach),
                    Fresh(mach))

NextAlloc ==
    \/ AllocAcquireGpr
    \/ AllocAcquireSimd
    \/ AllocReleaseGpr
    \/ AllocReleaseSimd
    \/ AllocReserveGpr
    \/ AllocReserveSimd
    \/ AllocPick

SpecAlloc == InitStack /\ [][NextAlloc]_vars

\* r is the first register of the list regs outside the set used, or none
FirstOutside(r, regs, used) ==
    IF Range(regs) \subseteq used THEN r = None
    ELSE \E i \in DOMAIN regs :
            /\ r = regs[i]
            /\ r \notin used
            /\ \A j \in 1..(i - 1) : regs[j] \in used

Marked(used, r) == IF r = None THEN used ELSE used \cup {r}

\* C15: acquire_temp_gpr / acquire_temp_simd return the first register of
\* X0..X7 / V0..V7 that is not in use and add exactly it to the set, or return
\* none and leave the set alone when all are in use; the register returned was
\* not in the set; the pick functions change neither set.
C15_AcquireIsPickAndMark ==
    /\ call.op = "acquire_temp_gpr" =>
            /\ FirstOutside(call.args[1], TempGprs, pre.mach.used_gprs)
            /\ mach.used_gprs = Marked(pre.mach.used_gprs, call.args[1])
            /\ mach.used_simd = pre.mach.used_simd
    /\ call.op = "acquire_temp_simd" =>
            /\ FirstOutside(call.args[1], TempSimds, pre.mach.used_simd)
            /\ mach.used_simd = Marked(pre.mach.used_simd, call.args[1])
            /\ mach.used_gprs = pre.mach.used_gprs
    /\ call.op \in {"pick_gpr", "pick_temp_gpr", "pick_simd", "pick_temp_simd"} =>
            /\ mach = pre.mach
            /\ call.op = "pick_gpr" => FirstOutside(call.args[1], Gprs, mach.used_gprs)
            /\ call.op = "pick_temp_gpr" => FirstOutside(call.args[1], TempGprs, mach.used_gprs)
            /\ call.op = "pick_simd" => FirstOutside(call.args[1], Simds, mach.used_simd)
            /\ call.op = "pick_temp_simd" => FirstOutside(call.args[1], TempSimds, mach.used_simd)

\* an acquisition with every vector candidate in use, after one with a gap below
C15_Witness ==
    /\ call.op = "acquire_temp_simd"
    /\ call.args[1] = None
    /\ Range(TempSimds) \subseteq mach.used_simd
    /\ Range(TempGprs) \subseteq mach.used_gprs

\* C16: release_gpr / release_simd of a register not in use aborts and leaves
\* the set alone; of a register in use, removes that register only; releasing
\* the register that an acquisition returned gives back the set before it.
C16_ReleaseChecksAndRemoves ==
    /\ call.op = "release_gpr" =>
            /\ Panicked(mach) <=> call.args[1] \notin pre.mach.used_gprs
            /\ mach.used_gprs = pre.mach.used_gprs \ {call.args[1]}
            /\ mach.used_simd = pre.mach.used_simd
    /\ call.op = "release_simd" =>
            /\ Panicked(mach) <=> call.args[1] \notin pre.mach.used_simd
            /\ mach.used_simd = pre.mach.used_simd \ {call.args[1]}
            /\ mach.used_gprs = pre.mach.used_gprs
    /\ (~Panicked(mach) /\ pick_temp_gpr(mach) # None) =>
            release_gpr(acquire_temp_gpr(mach), pick_temp_gpr(mach)).used_gprs
                = mach.used_gprs
    /\ (~Panicked(mach) /\ pick_temp_simd(mach) # None) =>
            release_simd(acquire_temp_simd(mach), pick_temp_simd(mach)).used_simd
                = mach.used_simd

\* a release of a vector register that nobody holds
C16_Witness ==
    /\ call.op = "release_simd"
    /\ Panicked(mach)
    /\ call.args[1] \notin mach.used_simd
    /\ mach.used_simd # {}

\* the registers of the register-resident locals
LocalRegs == {get_local_location(idx, 0).r : idx \in 0..7}

\* C17: no register that pick_temp_gpr or acquire_temp_gpr returns is the
\* register of a local, the frame base X27 or the context register X28.
C17_TemporariesApart ==
    LET kept == LocalRegs \cup {local_pointer, get_vmctx_reg}
    IN  /\ pick_temp_gpr(mach) \notin kept
        /\ call.op \in {"acquire_temp_gpr", "pick_temp_gpr"} => call.args[1] \notin kept
        /\ Range(TempGprs) \cap kept = {}

\* the last temporary handed out while a local's register is reserved
C17_Witness ==
    /\ call.op = "acquire_temp_gpr"
    /\ call.args[1] = "X7"
    /\ "X18" \in mach.used_gprs

\* C13: the native stack pointer stays a multiple of 16 bytes.
C13_StackPointerAligned == cpu.sp[1] % 16 = 0

----------------------------------------------------------------------------
(* The layout of locals and parameters in the frame *)

MaxLocal == 12
MaxSaved == 3

LocalIdx == 0..MaxLocal
SavedSizes == {8 * k : k \in 0..MaxSaved}
CallingConventions == {"SystemV", "WindowsFastcall"}

LayoutProlog ==
    /\ call.op = "new"
    /\ Called("emit_function_prolog", <<>>, emit_function_prolog(Fresh(mach)))
    /\ Idle

\* the last argument recorded is the value returned
GetLocalLocation ==
    \E idx \in LocalIdx, size \in SavedSizes :
        /\ ~Panicked(mach)
        /\ Called("get_local_location", <<idx, size, get_local_location(idx, size)>>, Fresh(mach))
        /\ Idle

IsLocalOnStack ==
    \E idx \in LocalIdx :
        /\ ~Panicked(mach)
        /\ Called("is_local_on_stack", <<idx, is_local_on_stack(idx)>>, Fresh(mach))
        /\ Idle

GetParamLocation ==
    \E idx \in LocalIdx, cc \in CallingConventions :
        /\ ~Panicked(mach)
        /\ Called("get_param_location", <<idx, cc, get_param_location(idx, cc)>>, Fresh(mach))
        /\ Idle

NextLayout == LayoutProlog \/ GetLocalLocation \/ IsLocalOnStack \/ GetParamLocation

SpecLayout == InitStack /\ [][NextLayout]_vars

\* C21: get_local_location gives locals 0..7 the registers X18..X25, one each,
\* and every later local a slot below X27; no two locals share a location;
\* the slot of local idx + 1 is 8 bytes below the slot of local idx, and the
\* slots move down by callee_saved_regs_size; is_local_on_stack holds of
\* exactly the locals that have a slot.
C21_LocalLayout ==
    /\ call.op = "get_local_location" =>
          LET idx == call.args[1]
              size == call.args[2]
              loc == call.args[3]
          IN  /\ idx <= 7 =>
                    loc = GPR(<<"X18", "X19", "X20", "X21", "X22", "X23", "X24", "X25">>[idx + 1])
              /\ idx >= 8 =>
                    /\ loc.k = "Memory" /\ loc.r = "X27" /\ loc.n < 0
                    /\ get_local_location(idx + 1, size).n = loc.n - 8
                    /\ loc.n = get_local_location(idx, 0).n - size
              /\ \A other \in LocalIdx :
                    other # idx => get_local_location(other, size) # loc
              /\ is_local_on_stack(idx) <=> loc.k = "Memory"
    /\ call.op = "is_local_on_stack" =>
          \A size \in SavedSizes :
              call.args[2] <=> get_local_location(call.args[1], size).k = "Memory"

\* the second stack local, above a callee-saved area of 16 bytes
C21_Witness ==
    /\ call.op = "get_local_location"
    /\ call.args[1] = 9
    /\ call.args[2] = 16
    /\ call.args[3] = Memory("X27", -64)

\* the 8 bytes of the slot at l, as the addresses of its first and last byte
SlotFirst(c, l) == Addr(c, l)
SlotLast(c, l) == Add64(Addr(c, l), Word(7))

\* the slots at a and at b have no byte in common
Apart(c, a, b) == Ult64(SlotLast(c, a), SlotFirst(c, b)) \/ Ult64(SlotLast(c, b), SlotFirst(c, a))

\* C22: get_param_location gives parameters 0..7 the registers X0..X7 and
\* parameter idx >= 8 the slot Memory(X27, 16 + 8 * (idx - 8)); after the
\* prolog these slots are apart from each other, from the two words at X27
\* and X27 + 8 that hold the saved X27 and X30, and from every stack local.
C22_ParamLayout ==
    call.op = "get_param_location" =>
        LET idx == call.args[1]
            cc == call.args[2]
            loc == call.args[3]
        IN  /\ idx <= 7 => loc = GPR(TempGprs[idx + 1])
            /\ idx >= 8 =>
                  /\ loc = Memory("X27", 16 + 8 * (idx - 8))
                  /\ \A other \in LocalIdx :
                        (other >= 8 /\ other # idx) =>
                            Apart(cpu, loc, get_param_location(other, cc))
                  /\ mach.assembler # <<>> =>
                        /\ Rd(cpu, cpu.x["X27"]) = FP0
                        /\ Rd(cpu, Add64(cpu.x["X27"], Word(8))) = cpu0.x["X30"]
                        /\ Apart(cpu, loc, Memory("X27", 0))
                        /\ Apart(cpu, loc, Memory("X27", 8))
                  /\ \A other \in LocalIdx, size \in SavedSizes :
                        other >= 8 => Apart(cpu, loc, get_local_location(other, size))

\* the second stack parameter of a function whose prolog has run
C22_Witness ==
    /\ call.op = "get_param_location"
    /\ call.args[1] = 9
    /\ call.args[3] = Memory("X27", 24)
    /\ Len(mach.assembler) = 2

----------------------------------------------------------------------------
(* The driver of the trap table and of the instruction address map *)

MaxTrapCode == 1
MaxMarks == 2

TrapCodes == {"HeapAccessOutOfBounds", "IntegerOverflow"}

\* the address map has room
Marking == ~Panicked(mach) /\ Len(mach.instructions_address_map) < MaxMarks

\* operations are processed in program order: the source offsets do not decrease
TrapSetSrcloc ==
    \E k \in {0} \cup SrcLocs :
        /\ Marking
        /\ k >= mach.src_loc
        /\ call.op # "set_srcloc"
        /\ Called("set_srcloc", <<k>>, set_srcloc(Fresh(mach), k))
        /\ Idle

\* some code between two marks
TrapEmit ==
    /\ Running(MaxTrapCode)
    /\ Called("emit_push", <<S64, GPR("X0")>>, emit_push(Fresh(mach), S64, GPR("X0")))
    /\ Idle

TrapLoad ==
    /\ Running(MaxTrapCode)
    /\ Marking
    /\ Called("i32_load", <<>>,
              i32_load(Fresh(mach), AddrLoc, MemArg(0, 1), GPR("X19"), FALSE, FALSE,
                       LocalOffset, "heap_access_oob"))
    /\ Idle

MarkAddressRange ==
    \E code \in TrapCodes, begin \in {0, InstrBytes}, end \in {InstrBytes, 2 * InstrBytes} :
        /\ Marking
        /\ begin <= end /\ end <= get_offset(mach)
        /\ Called("mark_address_range_with_trap_code", <<code, begin, end>>,
                  mark_address_range_with_trap_code(Fresh(mach), code, begin, end))
        /\ Idle

MarkAddress ==
    \E code \in TrapCodes :
        /\ Marking
        /\ Called("mark_address_with_trap_code", <<code>>,
                  mark_address_with_trap_code(Fresh(mach), code))
        /\ Idle

MarkInstruction ==
    \E code \in TrapCodes :
        /\ Marking
        /\ Called("mark_instruction_with_trap_code", <<code, get_offset(mach)>>,
                  mark_instruction_with_trap_code(Fresh(mach), code))
        /\ Idle

InsertStackoverflow ==
    /\ Marking
    /\ Called("insert_stackoverflow", <<>>, insert_stackoverflow(Fresh(mach)))
    /\ Idle

\* the two readers take &self; the argument recorded is the vector returned
CollectTrapInformation ==
    /\ ~Panicked(mach)
    /\ Called("collect_trap_information", <<collect_trap_information(mach)>>, Fresh(mach))
    /\ Idle

InstructionsAddressMap ==
    /\ ~Panicked(mach)
    /\ Called("instructions_address_map", <<instructions_address_map(mach)>>, Fresh(mach))
    /\ Idle

NextTrap ==
    \/ TrapSetSrcloc
    \/ TrapEmit
    \/ TrapLoad
    \/ MarkAddressRange
    \/ MarkAddress
    \/ MarkInstruction
    \/ InsertStackoverflow
    \/ CollectTrapInformation
    \/ InstructionsAddressMap

SpecTrap == InitStack /\ [][NextTrap]_vars

IsPrefix(s, t) == Len(s) <= Len(t) /\ SubSeq(t, 1, Len(s)) = s

OrderedBySrcloc(map) ==
    \A i, j \in DOMAIN map : i < j => map[i].srcloc <= map[j].srcloc

\* C23: with source offsets set in non-decreasing order, the entries of the
\* instruction address map are in non-decreasing order of source offset;
\* every operation leaves the entries it found in place and at most appends;
\* instructions_address_map() returns the entries as they are.
C23_AddressMapOrdered ==
    /\ [](OrderedBySrcloc(mach.instructions_address_map))
    /\ [](call.op = "instructions_address_map" =>
            /\ call.args[1] = mach.instructions_address_map
            /\ OrderedBySrcloc(call.args[1]))
    /\ [][IsPrefix(mach.instructions_address_map, mach'.instructions_address_map)]_vars

\* the map as returned, holding a stack-overflow entry at code offset 0 after
\* an entry of a later code offset and an earlier source offset
C23_Witness ==
    /\ call.op = "instructions_address_map"
    /\ \E i, j \in DOMAIN call.args[1] :
          /\ i < j
          /\ call.args[1][i].srcloc < call.args[1][j].srcloc
          /\ call.args[1][i].code_offset > call.args[1][j].code_offset

Offsets(table) == DOMAIN table

\* C24: no operation takes a code offset out of the trap table;
\* collect_trap_information() leaves the table alone and returns one record
\* for every offset of the table.
C24_TrapOffsetsOnlyGrow ==
    /\ [][Offsets(mach.trap_table) \subseteq Offsets(mach'.trap_table)]_vars
    /\ [](call.op = "collect_trap_information" =>
            /\ mach.trap_table = pre.mach.trap_table
            /\ {rec.code_offset : rec \in Range(call.args[1])} = Offsets(mach.trap_table)
            /\ \A rec \in Range(call.args[1]) :
                  rec.trap_code = mach.trap_table[rec.code_offset])

\* a collection after marks at two offsets, the earlier one marked twice
C24_Witness ==
    /\ call.op = "collect_trap_information"
    /\ Len(call.args[1]) >= 2
    /\ Len(mach.instructions_address_map) >= 2

\* a load that ran to its end and left its entry in both tables
TrapLoadDone ==
    /\ call.op = "i32_load"
    /\ ~Panicked(mach)
    /\ mach.trap_table # <<>>

----------------------------------------------------------------------------
(* Two machines driven in any interleaving *)

MaxPairOps == 3

Op(name, arg) == [name |-> name, arg |-> arg]

PairOps ==
    { Op("reserve_gpr", "X0"), Op("reserve_gpr", "X1"), Op("release_gpr", "X0"),
      Op("emit_push", "X1"), Op("push_used_gpr", ""),
      Op("mark_address_with_trap_code", "HeapAccessOutOfBounds") }

Apply(m, o) ==
    CASE o.name = "reserve_gpr" -> reserve_gpr(m, o.arg)
      [] o.name = "release_gpr" -> release_gpr(m, o.arg)
      [] o.name = "emit_push" -> emit_push(m, S64, GPR(o.arg))
      [] o.name = "push_used_gpr" -> push_used_gpr(m)
      [] o.name = "mark_address_with_trap_code" -> mark_address_with_trap_code(m, o.arg)

\* a variant in which the sets of registers in use are one static shared by all machines
ReceiverWithStaticSets(self, other) ==
    [self EXCEPT !.used_gprs = other.used_gprs, !.used_simd = other.used_simd]

\* what a method sees through &mut self while another machine exists: every
\* field of the struct is owned by the machine, and the statics of the
\* methods (the REGS lists) are immutable
Receiver(self, other) == self

\* vstack holds the calls made so far, each with the machine it was made on
PairFirst ==
    \E o \in PairOps :
        /\ Len(vstack) < MaxPairOps
        /\ ~Panicked(mach)
        /\ Called(o.name, <<1, o.arg>>, Apply(Receiver(Fresh(mach), twin), o))
        /\ twin' = twin
        /\ vstack' = Append(vstack, <<1, o>>)

PairSecond ==
    \E o \in PairOps :
        /\ Len(vstack) < MaxPairOps
        /\ ~Panicked(twin)
        /\ twin' = Apply(Receiver(Fresh(twin), mach), o)
        /\ mach' = mach
        /\ pre' = [mach |-> Fresh(twin), cpu |-> cpu]
        /\ call' = [op |-> o.name, args |-> <<2, o.arg>>]
        /\ cpu' = cpu
        /\ vstack' = Append(vstack, <<2, o>>)
        /\ UNCHANGED <<globals, relocations>>

InitPair ==
    \E g1 \in Orders(HashedGprs), g2 \in Orders(HashedGprs) :
        /\ mach = new_keyed(g1, <<>>)
        /\ twin = new_keyed(g2, <<>>)
        /\ pre = [mach |-> mach, cpu |-> cpu0]
        /\ call = [op |-> "new", args |-> <<>>]
        /\ cpu = cpu0
        /\ vstack = <<>>
        /\ globals = NoGlobals
        /\ relocations = <<>>

NextPair == PairFirst \/ PairSecond

SpecPair == InitPair /\ [][NextPair]_vars

\* the machine m after the calls of `history` that were made on machine `who`
RECURSIVE Alone(_, _, _)
Alone(m, who, history) ==
    IF history = <<>> THEN m
    ELSE Alone(IF Head(history)[1] = who THEN Apply(Fresh(m), Head(history)[2]) ELSE m,
               who, Tail(history))

Constructed(m) == new_keyed(m.hasher.gprs, m.hasher.simd)

----------------------------------------------------------------------------
(* The register allocator over the body of one function *)

\* between the prolog and the epilog
InFunction == Len(mach.assembler) = 2

BodyProlog ==
    /\ call.op = "new"
    /\ Called("emit_function_prolog", <<>>, emit_function_prolog(Fresh(mach)))
    /\ Idle

BodyAcquireGpr == InFunction /\ AllocAcquireGpr

BodyAcquireSimd == InFunction /\ AllocAcquireSimd

BodyReleaseGpr == InFunction /\ AllocReleaseGpr

BodyReleaseSimd == InFunction /\ AllocReleaseSimd

BodyReserveGpr == InFunction /\ AllocReserveGpr

BodyReserveSimd == InFunction /\ AllocReserveSimd

BodyEpilog ==
    /\ InFunction
    /\ ~Panicked(mach)
    /\ Called("emit_function_epilog", <<>>, emit_function_epilog(Fresh(mach)))
    /\ Idle

NextBody ==
    \/ BodyProlog
    \/ BodyAcquireGpr
    \/ BodyAcquireSimd
    \/ BodyReleaseGpr
    \/ BodyReleaseSimd
    \/ BodyReserveGpr
    \/ BodyReserveSimd
    \/ BodyEpilog

SpecBody == InitStack /\ [][NextBody]_vars

\* C26: after emit_function_epilog no general-purpose and no vector register
\* is in use, whatever was acquired, reserved and released in the body.
C26_DrainedAtEpilog ==
    call.op = "emit_function_epilog" =>
        (Panicked(mach) \/ (mach.used_gprs = {} /\ mach.used_simd = {}))

----------------------------------------------------------------------------
(* Global: a handle on a cell shared by its clones (runtime-core, global.rs) *)

\* a Value: I32 holds <<x>> for the signed integer x, F32 the two limbs of its
\* bits, I64 and F64 the four limbs of their bits
Value(ty, v) == [ty |-> ty, v |-> v]

\* x as u64 of an i32: sign extension
SignExtend32(x) ==
    LET hi == IF x < 0 THEN Limb - 1 ELSE 0
    IN  <<x % Limb, (x \div Limb) % Limb, hi, hi>>

\* data as i32: the low 32 bits as a signed integer
Truncate32(data) ==
    IF data[2] >= Limb \div 2 THEN (data[2] - Limb) * Limb + data[1]
    ELSE data[2] * Limb + data[1]

\* the match of _new and set: the 64 bits stored for a value
DataOf(value) ==
    CASE value.ty = "I32" -> SignExtend32(value.v[1])
      [] value.ty = "I64" -> value.v
      [] value.ty = "F32" -> <<value.v[1], value.v[2], 0, 0>>
      [] value.ty = "F64" -> value.v

\* the handle i of g reads its cell
Global_get(g, i) ==
    LET data == g.cells[g.objs[i].storage].data
        ty == g.objs[i].desc.ty
    IN  CASE ty = "I32" -> Value("I32", <<Truncate32(data)>>)
          [] ty = "I64" -> Value("I64", data)
          [] ty = "F32" -> Value("F32", <<data[1], data[2]>>)
          [] ty = "F64" -> Value("F64", data)

\* a new cell and the first handle on it; `created` remembers the value
Global__new(g, value, mutable) ==
    [g EXCEPT
        !.cells = Append(@, [data |-> DataOf(value), created |-> value]),
        !.objs = Append(@, [desc |-> [mutable |-> mutable, ty |-> value.ty],
                            storage |-> Len(g.cells) + 1])]

Global_new(g, value) == Global__new(g, value, FALSE)

Global_new_mutable(g, value) == Global__new(g, value, TRUE)

\* a variant of set without the test of the flag
Global_set_unchecked(g, i, value) ==
    IF g.objs[i].desc.ty = value.ty
    THEN [g |-> [g EXCEPT !.cells[g.objs[i].storage].data = DataOf(value)], panic |-> ""]
    ELSE [g |-> g, panic |-> "Wrong type for setting this global"]

\* the globals after the call and the message of the abort, if any
Global_set(g, i, value) ==
    IF g.objs[i].desc.mutable
    THEN IF g.objs[i].desc.ty = value.ty
         THEN [g |-> [g EXCEPT !.cells[g.objs[i].storage].data = DataOf(value)], panic |-> ""]
         ELSE [g |-> g, panic |-> "Wrong type for setting this global"]
    ELSE [g |-> g, panic |-> "Cannot modify global immutable by default"]

\* the clone has a cell of its own
Global_clone_own_cell(g, i) ==
    [g EXCEPT !.cells = Append(@, g.cells[g.objs[i].storage]),
              !.objs = Append(@, [g.objs[i] EXCEPT !.storage = Len(g.cells) + 1])]

Global_clone(g, i) == [g EXCEPT !.objs = Append(@, g.objs[i])]

Global_description(g, i) == g.objs[i].desc

\* hands out the address of the cell as *mut vm::LocalGlobal
Global_vm_local_global(g, i) == [g EXCEPT !.ptrs = @ \cup {g.objs[i].storage}]

\* the holder of a *mut vm::LocalGlobal stores through it
StoreLocalGlobal(g, cell, data) == [g EXCEPT !.cells[cell].data = data]

----------------------------------------------------------------------------
(* The driver of Global *)

MaxGlobals == 2

F32One == <<0, 16256>>

\* the bits of an f32 NaN with a payload, of i64::MIN and of the f64 -0.0
F32NaN == <<1, 32704>>
I64Min == <<0, 0, 0, 32768>>
F64NegZero == <<0, 0, 0, 32768>>

CreationValues ==
    {Value("I32", <<-1>>), Value("F32", F32One), Value("I64", I64Min), Value("F64", F64NegZero)}
SetValues ==
    {Value("I32", <<-2147483647 - 1>>), Value("I32", <<7>>), Value("F32", F32NaN),
     Value("I64", <<7, 0, 0, 0>>), Value("F64", <<1, 0, 0, 32752>>)}

GlobalCalled(op, args, g) ==
    /\ globals' = g
    /\ call' = [op |-> op, args |-> args]
    /\ UNCHANGED <<mach, pre, cpu, vstack, twin, relocations>>

Handles == DOMAIN globals.objs

GlobalNew ==
    \E value \in CreationValues :
        /\ Len(globals.objs) < MaxGlobals
        /\ GlobalCalled("Global::new", <<value>>, Global_new(globals, value))

GlobalNewMutable ==
    \E value \in CreationValues :
        /\ Len(globals.objs) < MaxGlobals
        /\ GlobalCalled("Global::new_mutable", <<value>>, Global_new_mutable(globals, value))

\* the last argument recorded is the message of the abort, "" when the call returned
GlobalSet ==
    \E i \in Handles, value \in SetValues :
        LET r == Global_set(globals, i, value)
        IN  GlobalCalled("Global::set", <<i, value, r.panic>>, r.g)

\* the last argument recorded is the value returned
GlobalGet ==
    \E i \in Handles :
        GlobalCalled("Global::get", <<i, Global_get(globals, i)>>, globals)

GlobalClone ==
    \E i \in Handles :
        /\ Len(globals.objs) < MaxGlobals
        /\ GlobalCalled("Global::clone", <<i>>, Global_clone(globals, i))

VmLocalGlobal ==
    \E i \in Handles :
        GlobalCalled("Global::vm_local_global", <<i>>, Global_vm_local_global(globals, i))

StoreThroughPointer ==
    \E cell \in globals.ptrs :
        GlobalCalled("store through *mut LocalGlobal", <<cell>>,
                     StoreLocalGlobal(globals, cell, Word(9)))

NextGlobal ==
    \/ GlobalNew
    \/ GlobalNewMutable
    \/ GlobalSet
    \/ GlobalGet
    \/ GlobalClone
    \/ VmLocalGlobal
    \/ StoreThroughPointer

SpecGlobal == InitStack /\ [][NextGlobal]_vars

\* a set that the flag and the type allow
AllowedSet(g, c) ==
    /\ c.op = "Global::set"
    /\ c.args[3] = ""
    /\ g.objs[c.args[1]].desc.mutable
    /\ g.objs[c.args[1]].desc.ty = c.args[2].ty

SetGated ==
    [][call'.op = "Global::set" =>
          /\ call'.args[3] # "" => globals' = globals
          /\ ~globals.objs[call'.args[1]].desc.mutable => call'.args[3] # ""]_vars

----------------------------------------------------------------------------
(* The driver of move_location *)

MaxMoveCode == 3

\* one offset of each class: accepted by offset_is_ok, unscaled, and far on
\* either side of the base
MoveOffsets == {16, -8, -512, 260}

MoveArgs ==
    {<<sz, GPR(r), Memory("X27", o)>> : sz \in {S64, S32}, r \in {"X18", "X19"}, o \in MoveOffsets}
        \cup {<<sz, Memory("X27", o), GPR("X26")>> : sz \in {S64, S32}, o \in MoveOffsets}
        \cup {<<S64, GPR("X19"), GPR("X26")>>, <<S64, Imm32(5), GPR("X26")>>}

MoveLocationCall ==
    \E a \in MoveArgs :
        /\ Running(MaxMoveCode)
        /\ Called("move_location", a, move_location(Fresh(mach), a[1], a[2], a[3]))
        /\ Idle

\* the registers that hold the locals moved are in use
MoveReserve ==
    \E r \in {"X0"} :
        /\ Running(MaxMoveCode)
        /\ r \notin mach.used_gprs
        /\ Called("reserve_gpr", <<r>>, reserve_gpr(Fresh(mach), r))
        /\ Idle

NextMove == MoveLocationCall \/ MoveReserve

SpecMove == InitStack /\ [][NextMove]_vars

\* a move between a register and memory
MemoryMove ==
    /\ call.op = "move_location"
    /\ \/ IsReg(call.args[2]) /\ call.args[3].k = "Memory"
       \/ call.args[2].k = "Memory" /\ call.args[3].k = "GPR"

MovedOffset == IF call.args[2].k = "Memory" THEN call.args[2].n ELSE call.args[3].n

\* C30: move_location between a register and memory returns and leaves in dst
\* the value that src held, whatever the class of the offset; the store writes
\* from src and the load writes dst.
C30_MoveReachesDestination ==
    MemoryMove =>
        LET size == call.args[1]
            src == call.args[2]
            dst == call.args[3]
            code == Emitted(pre.mach, mach)
        IN  /\ ~Panicked(mach)
            /\ code # <<>>
            /\ Sized(size, Val(cpu, dst)) = Sized(size, Val(pre.cpu, src))
            /\ dst.k = "Memory" =>
                  code[Len(code)].op = "str" /\ code[Len(code)].a = src
            /\ dst.k = "GPR" =>
                  code[Len(code)].op = "ldr" /\ code[Len(code)].d = dst

\* the part of C30 for the offsets that offset_is_ok accepts
MoveScaledOffset ==
    (MemoryMove /\ offset_is_ok(call.args[1], MovedOffset)) => C30_MoveReachesDestination

\* the part of C30 for the loads at an unscaled offset and the stores at a far offset
MoveOtherSoundClasses ==
    ( /\ MemoryMove
      /\ ~offset_is_ok(call.args[1], MovedOffset)
      /\ (call.args[3].k = "GPR") = (MovedOffset > -256 /\ MovedOffset < 256) ) =>
        C30_MoveReachesDestination

----------------------------------------------------------------------------
(* The driver of the stack slots: pushes, pops and the bulk adjustments *)

MaxSlotCode == 4

\* one delta of each arm of adjust_stack and restore_stack
StackDeltas == {16, 272}

\* a stretch of the stack: the call that allocated it, its lowest byte, its size
Region(by, lo, size) == [by |-> by, lo |-> lo, size |-> size]

\* the regions still at or above the stack pointer sp
Live(regions, sp) == SelectSeq(regions, LAMBDA r : ~Ult64(r.lo, sp))

\* the regions after the call that took the processor from c0 to c1: what the
\* call released is dropped, what it allocated is entered under its name
Regions(regions, by, c0, c1) ==
    IF Ult64(c1.sp, c0.sp)
    THEN Append(regions, Region(by, c1.sp, Sub64(c0.sp, c1.sp)[1]))
    ELSE Live(regions, c1.sp)

\* vstack holds the regions in this driver
Slotted(op, args, m0) ==
    \E m \in {m0} :
        /\ Called(op, args, m)
        /\ vstack' = IF Panicked(m) THEN vstack
                     ELSE Regions(vstack, op, cpu, Run(cpu, Emitted(mach, m)))
        /\ UNCHANGED twin

SlotPush ==
    \E r \in {"X0", "X1"} :
        /\ Running(MaxSlotCode)
        /\ Slotted("emit_push", <<S64, GPR(r)>>, emit_push(Fresh(mach), S64, GPR(r)))

SlotPop ==
    /\ Running(MaxSlotCode)
    /\ \E i \in DOMAIN vstack : vstack[i].by = "emit_push"
    /\ Slotted("emit_pop", <<S64, GPR("X2")>>, emit_pop(Fresh(mach), S64, GPR("X2")))

SlotAdjust ==
    \E d \in StackDeltas :
        /\ Running(MaxSlotCode)
        /\ Slotted("adjust_stack", <<d>>, adjust_stack(Fresh(mach), d))

\* restore_stack gives back what the last adjust_stack took
SlotRestore ==
    /\ Running(MaxSlotCode)
    /\ vstack # <<>>
    /\ vstack[Len(vstack)].by = "adjust_stack"
    /\ Slotted("restore_stack", <<vstack[Len(vstack)].size>>,
               restore_stack(Fresh(mach), vstack[Len(vstack)].size))

SlotReserveSimd ==
    \E v \in {"V0", "V1"} :
        /\ Running(MaxSlotCode)
        /\ v \notin mach.used_simd
        /\ call.op \in {"new", "reserve_simd"}
        /\ Slotted("reserve_simd", <<v>>, reserve_simd(Fresh(mach), v))

SlotPushUsedSimd ==
    /\ Running(MaxSlotCode)
    /\ mach.used_simd # {}
    /\ Slotted("push_used_simd", <<>>, push_used_simd(Fresh(mach)))

SlotPopUsedSimd ==
    /\ Running(MaxSlotCode)
    /\ vstack # <<>>
    /\ vstack[Len(vstack)].by = "push_used_simd"
    /\ Slotted("pop_used_simd", <<>>, pop_used_simd(Fresh(mach)))

NextSlot ==
    \/ SlotPush
    \/ SlotPop
    \/ SlotAdjust
    \/ SlotRestore
    \/ SlotReserveSimd
    \/ SlotPushUsedSimd
    \/ SlotPopUsedSimd

SpecSlot == InitStack /\ [][NextSlot]_vars

\* the address an emit_push stored to: the str is the last instruction emitted
PushStore == Addr(cpu, mach.assembler[Len(mach.assembler)].d)

Within(a, r) == ~Ult64(a, r.lo) /\ Ult64(a, Add64(r.lo, Word(r.size)))

PushRegions == {i \in DOMAIN vstack : vstack[i].by = "emit_push"}

PushDone == call.op = "emit_push" /\ ~Panicked(mach)

\* C31: a push stores inside a slot that a push allocated, never in a region
\* that adjust_stack or push_used_simd reserved; a push made with the parity
\* flag set stores to the high half of the slot that the last unpaired push
\* allocated.
C31_PushStaysInPushSlot ==
    PushDone =>
        /\ \E i \in PushRegions : Within(PushStore, vstack[i])
        /\ \A i \in DOMAIN vstack \ PushRegions : ~Within(PushStore, vstack[i])
        /\ pre.mach.pushed =>
              /\ PushRegions # {}
              /\ LET i == CHOOSE j \in PushRegions : \A k \in PushRegions : k <= j
                 IN  PushStore = Add64(vstack[i].lo, Word(8))

\* the part of C31 for the pushes made with no bulk region on top of the slots
PushOnTopOfPushes ==
    (PushDone /\ vstack # <<>> /\ vstack[Len(vstack)].by = "emit_push") =>
        C31_PushStaysInPushSlot

----------------------------------------------------------------------------
(* The driver of the function result *)

ReturnArgs ==
    {<<ty, canonicalize, loc>> :
        ty \in {"I32", "F64"}, canonicalize \in BOOLEAN,
        loc \in {GPR("X19"), Memory("X27", 16), Imm32(5)}}

ReturnValue ==
    \E a \in ReturnArgs :
        /\ Running(MaxMoveCode)
        /\ Called("emit_function_return_value", a,
                  emit_function_return_value(Fresh(mach), a[1], a[2], a[3]))
        /\ Idle

GetGprForRet ==
    /\ Running(MaxMoveCode)
    /\ call.op # "get_gpr_for_ret"
    /\ Returned("get_gpr_for_ret", get_gpr_for_ret, Fresh(mach))

NextReturn == MoveLocationCall \/ MoveReserve \/ ReturnValue \/ GetGprForRet

SpecReturn == InitStack /\ [][NextReturn]_vars

\* C32: emit_function_return_value(ty, false, loc) returns, and the register
\* it wrote is the one get_gpr_for_ret names: that register holds the value of
\* loc.
C32_ReturnValueInRetRegister ==
    (call.op = "emit_function_return_value" /\ ~call.args[2]) =>
        LET code == Emitted(pre.mach, mach)
        IN  /\ ~Panicked(mach)
            /\ code # <<>>
            /\ code[Len(code)].d = GPR(get_gpr_for_ret)
            /\ Val(cpu, GPR(get_gpr_for_ret)) = Val(pre.cpu, call.args[3])

----------------------------------------------------------------------------
(* The driver of the relocations *)

MaxRelocCode == 9

RelocTargets == {"LocalFunc(0)", "LibCall(Memory32Grow)"}

MoveWithReloc ==
    \E reloc_target \in RelocTargets :
        LET r == move_with_reloc(Fresh(mach), reloc_target, relocations)
        IN  /\ Running(MaxRelocCode)
            /\ mach' = r.m
            /\ relocations' = r.relocations
            /\ pre' = [mach |-> Fresh(mach), cpu |-> cpu]
            /\ call' = [op |-> "move_with_reloc", args |-> <<reloc_target>>]
            /\ cpu' = Run(cpu, Emitted(mach, r.m))
            /\ UNCHANGED <<vstack, twin, globals>>

\* code between two address loads
RelocPush ==
    \E r \in {"X0", "X26"} :
        /\ Running(MaxRelocCode)
        /\ Called("emit_push", <<S64, GPR(r)>>, emit_push(Fresh(mach), S64, GPR(r)))
        /\ Idle

RelocMove ==
    \E v \in {GPR("X19"), Imm32(5)} :
        /\ Running(MaxRelocCode)
        /\ Called("move_location", <<S64, v, GPR("X26")>>,
                  move_location(Fresh(mach), S64, v, GPR("X26")))
        /\ Idle

NextReloc == MoveWithReloc \/ RelocPush \/ RelocMove

SpecReloc == InitStack /\ [][NextReloc]_vars

MovwKinds == <<"Arm64Movw0", "Arm64Movw1", "Arm64Movw2", "Arm64Movw3">>

\* C33: move_with_reloc appends four records for its target, of kinds
\* Arm64Movw0..3 in this order and addend 0; the offset of each is the offset
\* of the movk emitted right after it (into X26, shifts 0, 16, 32, 48), so the
\* offsets increase strictly; the records already in the list stay as they were.
C33_FourRelocations ==
    [][call'.op = "move_with_reloc" =>
        LET n == Len(relocations)
            code == mach'.assembler
        IN  /\ ~Panicked(mach')
            /\ Len(relocations') = n + 4
            /\ SubSeq(relocations', 1, n) = relocations
            /\ \A i \in 1..4 :
                  LET rec == relocations'[n + i]
                      at == rec.offset \div InstrBytes + 1
                  IN  /\ rec.kind = MovwKinds[i]
                      /\ rec.reloc_target = call'.args[1]
                      /\ rec.addend = 0
                      /\ rec.offset % InstrBytes = 0
                      /\ at = Len(mach.assembler) + i
                      /\ at \in DOMAIN code
                      /\ code[at].op = "movk"
                      /\ code[at].d = GPR("X26")
                      /\ code[at].b = Imm8(16 * (i - 1))
            /\ \A i \in 1..3 : relocations'[n + i].offset < relocations'[n + i + 1].offset]_vars

\* a second address load, at an offset above 0, with records already in the list
C33_Witness ==
    /\ call.op = "move_with_reloc"
    /\ ~Panicked(mach)
    /\ Len(relocations) = 8
    /\ Len(pre.mach.assembler) > 4
    /\ relocations[1].reloc_target # relocations[5].reloc_target

----------------------------------------------------------------------------
(* The stack words of the frame record *)

\* the addresses from which the code, run from c, loads register r
RECURSIVE LoadedFrom(_, _, _)
LoadedFrom(c, code, r) ==
    IF code = <<>> THEN {}
    ELSE LET i == Head(code)
             here == CASE i.op = "ldr" /\ i.d = GPR(r) -> {Addr(c, i.a)}
                       [] i.op = "ldp" /\ i.d = GPR(r) -> {ReadX(c, i.a.r)}
                       [] i.op = "ldp" /\ i.b = GPR(r) -> {Add64(ReadX(c, i.a.r), Word(8))}
                       [] OTHER -> {}
         IN  here \cup LoadedFrom(Step(c, i), Tail(code), r)

EpilogDone == call.op = "emit_function_epilog" /\ ~Panicked(mach)

\* C34: the epilog loads X27 from the word where the prolog stored X27 and X30
\* from the word where the prolog stored X30, whether or not the parity flag
\* is set when the epilog is emitted.
C34_EpilogReloadsFrameRecord ==
    EpilogDone =>
        /\ LoadedFrom(pre.cpu, Emitted(pre.mach, mach), "X27") = {Sub64(SP0, Word(16))}
        /\ LoadedFrom(pre.cpu, Emitted(pre.mach, mach), "X30") = {Sub64(SP0, Word(8))}

\* the part of C34 for an epilog emitted with the parity flag clear
EpilogReloadsWhenParityClear ==
    (EpilogDone /\ ~pre.mach.pushed) => C34_EpilogReloadsFrameRecord

----------------------------------------------------------------------------
(* The trap code of an offset *)

\* C35: an offset that is in the trap table keeps its trap code under every
\* later marking call, offset 0 and a mark repeated at the same assembler
\* offset included.
C35_TrapCodeKept ==
    [][\A o \in Offsets(mach.trap_table) :
          /\ o \in Offsets(mach'.trap_table)
          /\ mach'.trap_table[o] = mach.trap_table[o]]_vars

\* the part of C35 for the marks at an offset that was not in the table
FreshOffsetsKeepOthers ==
    [][(Offsets(mach'.trap_table) \ Offsets(mach.trap_table) # {}
            /\ call'.op \in {"mark_address_with_trap_code", "mark_instruction_with_trap_code",
                             "insert_stackoverflow"}) =>
          \A o \in Offsets(mach.trap_table) : mach'.trap_table[o] = mach.trap_table[o]]_vars

----------------------------------------------------------------------------
(* The temporaries of memory_op *)

\* registers in use when memory_op is called
MemReserve ==
    \E r \in {"X0", "X1", "X2"} :
        /\ Running(MaxMemCode)
        /\ mach.assembler = <<>>
        /\ r \notin mach.used_gprs
        /\ Called("reserve_gpr", <<r>>, reserve_gpr(Fresh(mach), r))
        /\ Idle

NextTemps == MemReserve \/ MemoryOp

SpecTemps == InitMem /\ [][NextTemps]_vars

\* the first instruction of the code that is a load into GPR r, 0 if none
FirstLoad(code, r) ==
    IF \E i \in DOMAIN code : code[i].op = "ldr" /\ code[i].d = GPR(r)
    THEN CHOOSE i \in DOMAIN code :
            /\ code[i].op = "ldr" /\ code[i].d = GPR(r)
            /\ \A j \in 1..(i - 1) : ~(code[j].op = "ldr" /\ code[j].d = GPR(r))
    ELSE 0

\* the instructions that copy the guest address into GPR r (line 249)
GuestMoves(code, addr, r) ==
    {i \in DOMAIN code : code[i].op = "mov" /\ code[i].sz = S32
                            /\ code[i].a = addr /\ code[i].d = GPR(r)}

\* the machine on which the access callback is called (line 298)
AtCallback(m, a) ==
    LET r == mo_resolve(m, a.imported_memories, a.offset)
        m1 == mo_effective(mo_bound(r, a.value_size, a.need_check), r, a.addr, a.memarg,
                           "heap_access_oob")
    IN  mo_align(mo_real(m1, r, a.need_check, "heap_access_oob"), r, a.memarg,
                 a.check_alignment, "heap_access_oob", a.overflow_checks)

----------------------------------------------------------------------------
(* The handles of a Global: new, set, get and clone *)

\* vstack holds, for each handle, the handle made by new or new_mutable that it
\* is, or is a clone of
HandleCalled(op, args, g, family) ==
    /\ globals' = g
    /\ call' = [op |-> op, args |-> args]
    /\ vstack' = family
    /\ UNCHANGED <<mach, pre, cpu, twin, relocations>>

HandleNew ==
    \E value \in CreationValues :
        /\ Len(globals.objs) < MaxGlobals
        /\ HandleCalled("Global::new", <<value>>, Global_new(globals, value),
                        Append(vstack, Len(vstack) + 1))

HandleNewMutable ==
    \E value \in CreationValues :
        /\ Len(globals.objs) < MaxGlobals
        /\ HandleCalled("Global::new_mutable", <<value>>, Global_new_mutable(globals, value),
                        Append(vstack, Len(vstack) + 1))

HandleSet ==
    \E i \in Handles, value \in SetValues :
        LET r == Global_set(globals, i, value)
        IN  HandleCalled("Global::set", <<i, value, r.panic>>, r.g, vstack)

HandleGet ==
    \E i \in Handles :
        HandleCalled("Global::get", <<i, Global_get(globals, i)>>, globals, vstack)

HandleClone ==
    \E i \in Handles :
        /\ Len(globals.objs) < MaxGlobals
        /\ HandleCalled("Global::clone", <<i>>, Global_clone(globals, i),
                        Append(vstack, vstack[i]))

NextHandle == HandleNew \/ HandleNewMutable \/ HandleSet \/ HandleGet \/ HandleClone

SpecHandle == InitStack /\ [][NextHandle]_vars

\* the handle i and its clones
Clones(family, i) == {j \in DOMAIN family : family[j] = family[i]}

\* C37: get on a mutable Global returns, bit for bit, the value of the last
\* set that returned, or the value it was created with; every clone reads what
\* was set through any other; get returns a value of the type of
\* description(), which stays the same.
C37_GetReturnsLastSet ==
    /\ [](\A i \in Handles :
            Global_get(globals, i).ty = Global_description(globals, i).ty)
    /\ [][/\ \A i \in Handles : Global_description(globals', i) = Global_description(globals, i)
          /\ call'.op \in {"Global::new", "Global::new_mutable"} =>
                Global_get(globals', Len(globals'.objs)) = call'.args[1]
          /\ (call'.op = "Global::set" /\ call'.args[3] = "") =>
                \A j \in Clones(vstack, call'.args[1]) :
                    Global_get(globals', j) = call'.args[2]
          /\ call'.op = "Global::clone" =>
                Global_get(globals', Len(globals'.objs)) = Global_get(globals, call'.args[1])
          /\ \A j \in Handles :
                ~(call'.op = "Global::set" /\ call'.args[3] = ""
                    /\ j \in Clones(vstack, call'.args[1])) =>
                        Global_get(globals', j) = Global_get(globals, j)]_vars

\* a set through one handle of a cell that has two, read back through the other
C37_Witness ==
    /\ call.op = "Global::set"
    /\ call.args[3] = ""
    /\ call.args[2] \in {Value("F32", F32NaN), Value("I32", <<-2147483647 - 1>>)}
    /\ \E j \in Handles :
          /\ j # call.args[1]
          /\ j \in Clones(vstack, call.args[1])
          /\ Global_get(globals, j) = call.args[2]

----------------------------------------------------------------------------
(* The driver of the register save around a call: push_used_gpr, emission *)
(* that leaves the stack balanced and the in-use set alone, pop_used_gpr  *)

MaxSaveCode == 9

SavedGprs == {"X0", "X1", "X19"}

\* vstack holds one frame for the function and one more while a save is
\* outstanding: the processor and the parity flag when the frame was opened,
\* the registers stored, and the single pushes outstanding in it
Frame(c, pushed, stored, depth) ==
    [cpu |-> c, pushed |-> pushed, stored |-> stored, depth |-> depth]

Top == vstack[Len(vstack)]

Deepened(by) == [vstack EXCEPT ![Len(vstack)].depth = @ + by]

\* the registers the code stores, in the order of the stores
Stored(code) ==
    LET strs == SelectSeq(code, LAMBDA i : i.op = "str")
    IN  [k \in DOMAIN strs |-> strs[k].a.r]

\* the registers the code loads, in the order of the loads
Loaded(code) ==
    LET ldrs == SelectSeq(code, LAMBDA i : i.op = "ldr")
    IN  [k \in DOMAIN ldrs |-> ldrs[k].d.r]

SaveReserve ==
    \E r \in SavedGprs :
        /\ Running(MaxSaveCode)
        /\ Len(vstack) = 1
        /\ r \notin mach.used_gprs
        /\ Called("reserve_gpr", <<r>>, reserve_gpr(Fresh(mach), r))
        /\ Idle

SaveEmitPush ==
    \E r \in {"X0"} :
        /\ Running(MaxSaveCode)
        /\ Top.depth < 1
        /\ Called("emit_push", <<S64, GPR(r)>>, emit_push(Fresh(mach), S64, GPR(r)))
        /\ vstack' = Deepened(1)
        /\ UNCHANGED twin

SaveEmitPop ==
    \E r \in {"X1"} :
        /\ Running(MaxSaveCode)
        /\ Len(vstack) = 2
        /\ Top.depth > 0
        /\ Called("emit_pop", <<S64, GPR(r)>>, emit_pop(Fresh(mach), S64, GPR(r)))
        /\ vstack' = Deepened(-1)
        /\ UNCHANGED twin

\* the code of the call overwrites a saved register
SaveClobber ==
    \E r \in {"X0", "X19"} :
        /\ Running(MaxSaveCode)
        /\ Len(vstack) = 2
        /\ call.op # "move_location"
        /\ Called("move_location", <<S64, Imm32(5), GPR(r)>>,
                  move_location(Fresh(mach), S64, Imm32(5), GPR(r)))
        /\ Idle

SavePushUsedGpr ==
    LET m == push_used_gpr(Fresh(mach))
    IN  /\ Running(MaxSaveCode)
        /\ Len(vstack) = 1
        /\ mach.used_gprs # {}
        /\ Called("push_used_gpr", <<>>, m)
        /\ vstack' = Append(vstack, Frame(cpu, mach.pushed, Stored(Emitted(mach, m)), 0))
        /\ UNCHANGED twin

SavePopUsedGpr ==
    /\ ~Panicked(mach)
    /\ Len(vstack) = 2
    /\ Top.depth = 0
    /\ Called("pop_used_gpr", <<>>, pop_used_gpr(Fresh(mach)))
    /\ vstack' = <<vstack[1]>>
    /\ UNCHANGED twin

InitSave ==
    \E g \in Orders(SavedGprs) :
        /\ mach = new_keyed(g, <<>>)
        /\ pre = [mach |-> mach, cpu |-> cpu0]
        /\ call = [op |-> "new", args |-> <<>>]
        /\ cpu = cpu0
        /\ vstack = <<Frame(cpu0, FALSE, <<>>, 0)>>
        /\ twin = new
        /\ globals = NoGlobals
        /\ relocations = <<>>

NextSave ==
    \/ SaveReserve
    \/ SaveEmitPush
    \/ SaveEmitPop
    \/ SaveClobber
    \/ SavePushUsedGpr
    \/ SavePopUsedGpr

SpecSave == InitSave /\ [][NextSave]_vars

\* C38: pop_used_gpr after push_used_gpr, with the in-use set untouched and
\* the stack balanced in between, loads the registers in the reverse of the
\* order in which they were stored, leaves in every in-use register the value
\* it had at push_used_gpr, and the stack pointer and the parity flag as they
\* were before push_used_gpr.
C38_SaveRestore ==
    [][call'.op = "pop_used_gpr" =>
        /\ ~Panicked(mach')
        /\ Range(Top.stored) = mach.used_gprs
        /\ Loaded(Emitted(mach, mach')) = Reversed(Top.stored)
        /\ \A r \in mach.used_gprs : cpu'.x[r] = Top.cpu.x[r]
        /\ cpu'.sp = Top.cpu.sp
        /\ mach'.pushed = Top.pushed]_vars

\* a save of two or more registers made with the parity flag set, in an order
\* that is not the order of the register file, one of them overwritten before
\* the reload
C38_Witness ==
    /\ call.op = "pop_used_gpr"
    /\ ~Panicked(mach)
    /\ mach.pushed
    /\ Cardinality(mach.used_gprs) >= 2
    /\ get_used_gprs(mach) # SelectSeq(GprList, LAMBDA r : r \in mach.used_gprs)
    /\ \E i \in DOMAIN mach.assembler :
          /\ mach.assembler[i].op = "mov"
          /\ mach.assembler[i].a = Imm32(5)
          /\ mach.assembler[i].d.r \in mach.used_gprs

====
